---- MODULE Spec2Model ----
(***************************************************************************)
(* Model of chainlit.google: the instrumentation of the Google GenAI SDK.  *)
(* install (instrument_google_genai) patches the SDK's client classes or   *)
(* the legacy module, constructed clients get their surface methods        *)
(* wrapped, and every wrapped call records one step (span) whose send is   *)
(* scheduled on the event loop.                                            *)
(***************************************************************************)
EXTENDS Integers, Sequences, FiniteSets, TLC

(***************************************************************************)
(* Bounds of the model.                                                    *)
(***************************************************************************)
MaxInstalls == 2
MaxClients == 2
MaxCalls == 1
\* install() calls, client constructions and SDK calls of one run, together
MaxOps == 4
\* how far the clock runs
MaxTime == 2

(***************************************************************************)
(* Python values.  Every value is a record with a type tag t; the payload  *)
(* field differs by type so that values of different types compare as      *)
(* unequal records.                                                        *)
(***************************************************************************)
NoneV == [t |-> "none"]
\* text: the sequence of its pieces, <<>> for the empty string
Str(s) == [t |-> "str", s |-> s]
IntV(i) == [t |-> "int", i |-> i]
BoolV(b) == [t |-> "bool", b |-> b]
\* a dict: its items <<key, value>> in insertion order
Dict(items) == [t |-> "dict", items |-> items]
List(items) == [t |-> "list", items |-> items]
Tuple(items) == [t |-> "tuple", items |-> items]
\* a set: its elements in the order its iteration gives them
SetV(items) == [t |-> "set", items |-> items]
\* an object with a __dict__: attrs are the items <<name, value>> of vars(obj)
\* in insertion order, raising the names of the class's properties whose
\* getter raises (an exception other than AttributeError)
Obj(attrs, raising) == [t |-> "obj", attrs |-> attrs, raising |-> raising]
\* an object without __dict__ that has model_dump(); dump is what it
\* returns, Exc(..) when it raises
Dumpable(dump) == [t |-> "dumpable", dump |-> dump]
\* an object without __dict__ and without model_dump
Opaque == [t |-> "opaque"]
\* a generator: the values it yields when iterated
Gen(items) == [t |-> "generator", items |-> items]
Generator == Gen(<<>>)
AsyncGen == [t |-> "asyncgen"]
\* an awaitable object (coroutine, future) handed out by the SDK
Awaitable == [t |-> "awaitable"]
\* an exception instance, identified by its class name
Exc(e) == [t |-> "exc", e |-> e]

IsExc(v) == v.t = "exc"

\* inspect.isgenerator(v) or inspect.isasyncgen(v)
IsStream(v) == v.t \in {"generator", "asyncgen"}

HasKey(items, k) == \E i \in 1..Len(items) : items[i][1] = k

Lookup(items, k) == items[CHOOSE i \in 1..Len(items) : items[i][1] = k][2]

\* getattr(obj, name, None): the class's property comes before the
\* instance's __dict__; only a missing attribute gives the default
GetAttr(obj, name) ==
  IF obj.t # "obj" THEN NoneV
  ELSE IF name \in obj.raising THEN Exc("PropertyError")
  ELSE IF HasKey(obj.attrs, name) THEN Lookup(obj.attrs, name)
  ELSE NoneV

\* hasattr(obj, name): BoolV, or the exception the getter raises
HasAttr(obj, name) ==
  IF obj.t # "obj" THEN BoolV(FALSE)
  ELSE IF name \in obj.raising THEN Exc("PropertyError")
  ELSE BoolV(HasKey(obj.attrs, name))

\* bool(v)
Truthy(v) ==
  CASE v.t = "none" -> FALSE
    [] v.t = "str" -> v.s # <<>>
    [] v.t = "int" -> v.i # 0
    [] v.t = "bool" -> v.b
    [] v.t \in {"dict", "list", "tuple", "set"} -> v.items # <<>>
    [] OTHER -> TRUE

\* isinstance(v, (str, int, float, bool))
IsScalar(v) == v.t \in {"str", "int", "bool"}

\* key.startswith("_") of an attribute name
StartsWithUnderscore(key) == Len(key) > 0 /\ SubSeq(key, 1, 1) = "_"

\* repr(v) of an object that has neither __dict__ nor a usable model_dump
Repr(v) == Str(<<"<", v.t, " object>">>)

\* the pieces of a text as one piece
RECURSIVE Flat(_)
Flat(s) == IF s = <<>> THEN "" ELSE Flat(SubSeq(s, 1, Len(s) - 1)) \o s[Len(s)]

\* the pieces joined by ", "
RECURSIVE JoinComma(_)
JoinComma(s) ==
  IF s = <<>> THEN ""
  ELSE IF Len(s) = 1 THEN s[1]
  ELSE JoinComma(SubSeq(s, 1, Len(s) - 1)) \o ", " \o s[Len(s)]

\* repr(v) as one piece of text (the texts of the model hold no quote and
\* no backslash; a line break is written \n)
RECURSIVE PyRepr(_)
PyRepr(v) ==
  CASE v.t = "str" ->
         "'" \o Flat([i \in 1..Len(v.s) |-> IF v.s[i] = "\n" THEN "\\n" ELSE v.s[i]]) \o "'"
    [] v.t = "int" -> ToString(v.i)
    [] v.t = "bool" -> IF v.b THEN "True" ELSE "False"
    [] v.t = "none" -> "None"
    [] v.t = "tuple" ->
         "(" \o JoinComma([i \in 1..Len(v.items) |-> PyRepr(v.items[i])])
             \o (IF Len(v.items) = 1 THEN "," ELSE "") \o ")"
    [] v.t = "list" ->
         "[" \o JoinComma([i \in 1..Len(v.items) |-> PyRepr(v.items[i])]) \o "]"
    [] v.t = "set" ->
         IF v.items = <<>> THEN "set()"
         ELSE "{" \o JoinComma([i \in 1..Len(v.items) |-> PyRepr(v.items[i])]) \o "}"
    [] v.t = "dict" ->
         "{" \o JoinComma([i \in 1..Len(v.items) |->
                              PyRepr(v.items[i][1]) \o ": " \o PyRepr(v.items[i][2])])
             \o "}"
    [] OTHER -> Flat(Repr(v).s)

\* str(k) holds the address of an object: k is, or is a container that
\* holds, an object whose text is the default one ("<... object at 0x...>")
RECURSIVE HasAddress(_)
HasAddress(k) ==
  CASE k.t \in {"str", "int", "bool", "none"} -> FALSE
    [] k.t \in {"tuple", "list", "set"} -> \E i \in 1..Len(k.items) : HasAddress(k.items[i])
    [] k.t = "dict" -> \E i \in 1..Len(k.items) :
                         HasAddress(k.items[i][1]) \/ HasAddress(k.items[i][2])
    [] OTHER -> TRUE

\* str(k) for a dict key; the address in the text of an object is left out
PyStr(k) ==
  CASE k.t = "str" -> k
    [] k.t = "int" -> Str(<<ToString(k.i)>>)
    [] k.t = "bool" -> Str(<<IF k.b THEN "True" ELSE "False">>)
    [] k.t = "none" -> Str(<<"None">>)
    [] k.t \in {"tuple", "list", "set", "dict"} -> Str(<<PyRepr(k)>>)
    [] OTHER -> Repr(k)

\* a dict built by inserting the items in order: a key inserted again keeps
\* its first position and takes the last value
RECURSIVE DictOf(_)
DictOf(items) ==
  IF items = <<>> THEN <<>>
  ELSE LET n == Len(items)
           before == DictOf(SubSeq(items, 1, n - 1))
           k == items[n][1]
       IN IF HasKey(before, k)
          THEN [i \in 1..Len(before) |->
                  IF before[i][1] = k THEN <<k, items[n][2]>> ELSE before[i]]
          ELSE Append(before, items[n])

\* _simplify leaving the keys of a dict as they are
RECURSIVE _simplify_raw_keys(_)
_simplify_raw_keys(value) ==
  CASE value.t \in {"str", "int", "bool", "none"} -> value
    [] value.t = "dict" ->
         Dict(DictOf([i \in 1..Len(value.items) |->
                        <<value.items[i][1], _simplify_raw_keys(value.items[i][2])>>]))
    [] value.t \in {"list", "tuple", "set"} ->
         List([i \in 1..Len(value.items) |-> _simplify_raw_keys(value.items[i])])
    [] value.t = "obj" ->
         LET pub == SelectSeq(value.attrs, LAMBDA it : ~StartsWithUnderscore(it[1]))
         IN Dict([i \in 1..Len(pub) |->
                    <<Str(<<pub[i][1]>>), _simplify_raw_keys(pub[i][2])>>])
    [] value.t = "dumpable" ->
         IF IsExc(value.dump) THEN Repr(value) ELSE _simplify_raw_keys(value.dump)
    [] OTHER -> Repr(value)

\* the text of the i-th key of a dict, with what tells it from the text of
\* every other key: the address of the object it holds (two keys of a dict
\* are never the same object, so the position of the key stands for it),
\* 0 when the text holds no address
TextOfKey(k, i) == <<PyStr(k), IF HasAddress(k) THEN i ELSE 0>>

\* the items of a dict built on the texts of TextOfKey, as <<text, value>>
WithoutAddress(items) == [i \in 1..Len(items) |-> <<items[i][1][1], items[i][2]>>]

RECURSIVE _simplify(_)
_simplify(value) ==
  CASE value.t \in {"str", "int", "bool", "none"} -> value
    [] value.t = "dict" ->
         Dict(WithoutAddress(
                DictOf([i \in 1..Len(value.items) |->
                          <<TextOfKey(value.items[i][1], i), _simplify(value.items[i][2])>>])))
    [] value.t \in {"list", "tuple", "set"} ->
         List([i \in 1..Len(value.items) |-> _simplify(value.items[i])])
    [] value.t = "obj" ->
         LET pub == SelectSeq(value.attrs, LAMBDA it : ~StartsWithUnderscore(it[1]))
         IN Dict([i \in 1..Len(pub) |-> <<Str(<<pub[i][1]>>), _simplify(pub[i][2])>>])
    [] value.t = "dumpable" ->
         IF IsExc(value.dump) THEN Repr(value) ELSE _simplify(value.dump)
    [] OTHER -> Repr(value)

\* kwargs as the dict the wrapper received: keyword name -> value
KwDict(kwargs) == Dict([i \in 1..Len(kwargs) |-> <<Str(<<kwargs[i][1]>>), kwargs[i][2]>>])

Min(S) == CHOOSE x \in S : \A y \in S : x <= y

\* value.startswith("models/")
StartsWithModels(value) == value.s # <<>> /\ value.s[1] = "models/"

\* d.get(key) of a dict
DictGet(d, key) == IF HasKey(d.items, key) THEN Lookup(d.items, key) ELSE NoneV

\* the loop of _extract_model over the positional arguments
RECURSIVE ModelFromArgs(_, _)
ModelFromArgs(args, i) ==
  IF i > Len(args) THEN NoneV
  ELSE LET value == args[i] IN
         IF value.t = "str" /\ StartsWithModels(value) THEN value
         ELSE IF value.t = "dict" /\ DictGet(value, Str(<<"model">>)).t = "str"
         THEN DictGet(value, Str(<<"model">>))
         ELSE ModelFromArgs(args, i + 1)

ModelAttrs == <<"model", "model_name", "model_version">>

\* the loop of _extract_model over the attributes of the result
RECURSIVE ModelFromResult(_, _)
ModelFromResult(result, i) ==
  IF i > Len(ModelAttrs) THEN NoneV
  ELSE LET candidate == GetAttr(result, ModelAttrs[i]) IN
         IF IsExc(candidate) \/ candidate.t = "str" THEN candidate
         ELSE ModelFromResult(result, i + 1)

\* _extract_model taking the model from the result alone
_extract_model_result_only(args, kwargs, result) == ModelFromResult(result, 1)

\* _extract_model looking at the result before the positional arguments
_extract_model_result_first(args, kwargs, result) ==
  IF HasKey(kwargs, "model") /\ Lookup(kwargs, "model").t = "str"
  THEN Lookup(kwargs, "model")
  ELSE LET fromResult == ModelFromResult(result, 1) IN
         IF fromResult # NoneV THEN fromResult ELSE ModelFromArgs(args, 1)

\* the model name, NoneV, or the exception a getter of the result raised
_extract_model(args, kwargs, result) ==
  IF HasKey(kwargs, "model") /\ Lookup(kwargs, "model").t = "str"
  THEN Lookup(kwargs, "model")
  ELSE LET fromArgs == ModelFromArgs(args, 1) IN
         IF fromArgs # NoneV THEN fromArgs ELSE ModelFromResult(result, 1)

PromptKeys == <<"contents", "messages", "prompt", "input", "text">>

_extract_prompt(args, kwargs) ==
  LET keys == {i \in 1..Len(PromptKeys) : HasKey(kwargs, PromptKeys[i])}
      hits == {i \in 1..Len(args) : args[i].t \in {"str", "list", "dict"}}
  IN IF keys # {} THEN _simplify(Lookup(kwargs, PromptKeys[Min(keys)]))
     ELSE IF hits # {} THEN _simplify(args[Min(hits)])
     ELSE NoneV

OutputAttrs == <<"output_text", "text", "response_text">>

\* the first loop of _extract_output: a non-empty text attribute, NoneV, or
\* the exception a getter raised
RECURSIVE OutputFromAttrs(_, _)
OutputFromAttrs(result, i) ==
  IF i > Len(OutputAttrs) THEN NoneV
  ELSE LET candidate == GetAttr(result, OutputAttrs[i]) IN
         IF IsExc(candidate) THEN candidate
         ELSE IF candidate.t = "str" /\ candidate.s # <<>> THEN candidate
         ELSE OutputFromAttrs(result, i + 1)

\* what a for loop over v iterates: the elements (of a dict its keys, of a
\* generator what it yields, of a str its pieces, which like its characters
\* have no attributes), or ok = FALSE when v is not iterable and the loop
\* raises TypeError
Iterate(v) ==
  CASE v.t \in {"list", "tuple", "set", "generator"} -> [ok |-> TRUE, items |-> v.items]
    [] v.t = "dict" -> [ok |-> TRUE, items |-> [i \in 1..Len(v.items) |-> v.items[i][1]]]
    [] v.t = "str" -> [ok |-> TRUE, items |-> [i \in 1..Len(v.s) |-> Str(<<v.s[i]>>)]]
    [] OTHER -> [ok |-> FALSE, items |-> <<>>]

\* the loop over the parts without its `if text` test
RECURSIVE WalkParts_keep_empty(_, _, _)
WalkParts_keep_empty(parts, j, texts) ==
  IF j > Len(parts) THEN [texts |-> texts, raised |-> FALSE]
  ELSE LET text == GetAttr(parts[j], "text") IN
         IF IsExc(text) THEN [texts |-> texts, raised |-> TRUE]
         ELSE WalkParts_keep_empty(parts, j + 1,
                                   IF text # NoneV THEN Append(texts, text) ELSE texts)

\* the loop over the parts of one candidate: the texts collected and
\* whether an exception ended the walk
RECURSIVE WalkParts(_, _, _)
WalkParts(parts, j, texts) ==
  IF j > Len(parts) THEN [texts |-> texts, raised |-> FALSE]
  ELSE LET text == GetAttr(parts[j], "text") IN
         IF IsExc(text) THEN [texts |-> texts, raised |-> TRUE]
         ELSE WalkParts(parts, j + 1, IF Truthy(text) THEN Append(texts, text) ELSE texts)

RECURSIVE WalkCandidates(_, _, _)
WalkCandidates(candidates, i, texts) ==
  IF i > Len(candidates) THEN [texts |-> texts, raised |-> FALSE]
  ELSE LET content == GetAttr(candidates[i], "content") IN
    IF IsExc(content) THEN [texts |-> texts, raised |-> TRUE]
    ELSE IF content = NoneV THEN WalkCandidates(candidates, i + 1, texts)
    ELSE LET parts == GetAttr(content, "parts") IN
      IF IsExc(parts) THEN [texts |-> texts, raised |-> TRUE]
      ELSE IF parts = NoneV THEN WalkCandidates(candidates, i + 1, texts)
      ELSE IF ~Iterate(parts).ok THEN [texts |-> texts, raised |-> TRUE]
      ELSE LET w == WalkParts(Iterate(parts).items, 1, texts) IN
             IF w.raised THEN w ELSE WalkCandidates(candidates, i + 1, w.texts)

\* "\n".join(texts): TypeError when an element is not text
RECURSIVE JoinLines(_)
JoinLines(texts) ==
  IF \E i \in 1..Len(texts) : texts[i].t # "str" THEN Exc("TypeError")
  ELSE IF Len(texts) = 1 THEN texts[1]
  ELSE Str(JoinLines(SubSeq(texts, 1, Len(texts) - 1)).s \o <<"\n">> \o texts[Len(texts)].s)

\* the candidates rule of _extract_output: the joined text, NoneV when the
\* rule gives nothing, or the exception that leaves _extract_output
OutputFromCandidates(result) ==
  LET has == HasAttr(result, "candidates") IN
    IF IsExc(has) THEN has
    ELSE IF ~has.b THEN NoneV
    ELSE LET it == Iterate(GetAttr(result, "candidates"))
             w == IF it.ok THEN WalkCandidates(it.items, 1, <<>>)
                  ELSE [texts |-> <<>>, raised |-> TRUE]
         IN IF w.texts # <<>> THEN JoinLines(w.texts) ELSE NoneV

\* the response rule of _extract_output: [hit, value]
OutputFromResponse(result) ==
  LET has == HasAttr(result, "response") IN
    IF IsExc(has) THEN [hit |-> TRUE, value |-> has]
    ELSE IF ~has.b THEN [hit |-> FALSE, value |-> NoneV]
    ELSE LET response == GetAttr(result, "response")
             hasText == HasAttr(response, "output_text")
         IN IF IsExc(hasText) THEN [hit |-> TRUE, value |-> hasText]
            ELSE IF ~hasText.b THEN [hit |-> FALSE, value |-> NoneV]
            ELSE LET output_text == GetAttr(response, "output_text") IN
                   IF output_text.t = "str" THEN [hit |-> TRUE, value |-> output_text]
                   ELSE [hit |-> FALSE, value |-> NoneV]

\* obj with its attribute `name` bound to val
SetAttr(obj, name, val) ==
  [obj EXCEPT !.attrs = [i \in 1..Len(obj.attrs) |->
                           IF obj.attrs[i][1] = name THEN <<name, val>> ELSE obj.attrs[i]]]

\* a generator after a for loop took its elements up to the one at `stop`,
\* where the loop was left by an exception (0: the loop ran to the end and
\* the generator is exhausted); any other value is as it was
Taken(v, stop) ==
  IF v.t # "generator" THEN v
  ELSE IF stop = 0 THEN Gen(<<>>)
  ELSE Gen(SubSeq(v.items, stop + 1, Len(v.items)))

\* the first part whose text getter raises, 0 when none does
PartsStop(parts) ==
  LET bad == {j \in 1..Len(parts) : IsExc(GetAttr(parts[j], "text"))}
  IN IF bad = {} THEN 0 ELSE Min(bad)

\* the walk of this candidate is left by an exception
CandidateRaises(candidate) ==
  LET content == GetAttr(candidate, "content") IN
    IF IsExc(content) THEN TRUE
    ELSE IF content = NoneV THEN FALSE
    ELSE LET parts == GetAttr(content, "parts") IN
      IF IsExc(parts) THEN TRUE
      ELSE IF parts = NoneV THEN FALSE
      ELSE IF ~Iterate(parts).ok THEN TRUE
      ELSE PartsStop(Iterate(parts).items) # 0

\* the candidate after the walk went into it: parts that are a generator
\* have given the elements the inner loop took
CandidateAfter(candidate) ==
  LET content == GetAttr(candidate, "content") IN
    IF IsExc(content) \/ content = NoneV THEN candidate
    ELSE LET parts == GetAttr(content, "parts") IN
      IF IsExc(parts) \/ parts.t # "generator" THEN candidate
      ELSE SetAttr(candidate, "content",
                   SetAttr(content, "parts", Taken(parts, PartsStop(parts.items))))

\* result.candidates after the walk of _extract_output
CandidatesAfter(candidates) ==
  LET items == Iterate(candidates).items
      bad == {i \in 1..Len(items) : CandidateRaises(items[i])}
      stop == IF bad = {} THEN 0 ELSE Min(bad)
      Walked(i) == stop = 0 \/ i <= stop
  IN CASE candidates.t = "generator" -> Taken(candidates, stop)
       [] candidates.t \in {"list", "tuple", "set"} ->
            [candidates EXCEPT !.items =
               [i \in 1..Len(items) |->
                  IF Walked(i) THEN CandidateAfter(items[i]) ELSE items[i]]]
       [] candidates.t = "dict" ->
            [candidates EXCEPT !.items =
               [i \in 1..Len(items) |->
                  <<IF Walked(i) THEN CandidateAfter(items[i]) ELSE items[i],
                    candidates.items[i][2]>>]]
       [] OTHER -> candidates

\* the result object as _extract_output leaves it: the for loops of the
\* candidates rule take the elements of the generators they iterate
ResultAfterExtract(result) ==
  IF result.t # "obj" THEN result
  ELSE IF OutputFromAttrs(result, 1) # NoneV THEN result
  ELSE IF HasAttr(result, "candidates") # BoolV(TRUE) THEN result
  ELSE SetAttr(result, "candidates", CandidatesAfter(GetAttr(result, "candidates")))

_extract_output(result) ==
  IF result = NoneV THEN NoneV
  ELSE LET fromAttrs == OutputFromAttrs(result, 1) IN
    IF fromAttrs # NoneV THEN fromAttrs
    ELSE LET fromCandidates == OutputFromCandidates(result) IN
      IF fromCandidates # NoneV THEN fromCandidates
      ELSE LET fromResponse == OutputFromResponse(result) IN
        IF fromResponse.hit THEN fromResponse.value
        ELSE IF IsScalar(result) THEN result
        ELSE _simplify(result)

_default_step_name(interface, method) == Str(<<"google::", interface, ".", method>>)

(***************************************************************************)
(* The SDK as the process finds it: which packages import, which client    *)
(* classes google.genai exposes, which functions google.generativeai has   *)
(* (name -> is it a coroutine function).                                   *)
(***************************************************************************)
ClientClasses == {"Client", "AsyncClient"}

NoModule == [n \in {} |-> FALSE]

LegacyModules ==
  { NoModule,
    [generate_content |-> FALSE, count_tokens |-> FALSE],
    [generate_text |-> FALSE, generate_content |-> FALSE,
     generate_message |-> TRUE, count_tokens |-> FALSE] }

SdkEnvs ==
  { e \in [genai : BOOLEAN, genaiClasses : SUBSET ClientClasses,
           generativeai : BOOLEAN, legacyModule : LegacyModules] :
      /\ (~e.genai => e.genaiClasses = {})
      /\ (~e.generativeai => e.legacyModule = NoModule)
      /\ (e.genaiClasses # {} /\ e.generativeai =>
            "generate_text" \in DOMAIN e.legacyModule) }

VARIABLES
  sdk,       \* the SDK environment (an element of SdkEnvs)
  classes,   \* client class -> [marked, init]: sentinel and number of wrapped_init layers
  legacy,    \* the legacy module object: [marked, fns: name -> function object]
  installs,  \* outcome of every instrument_google_genai() call so far
  clients,   \* the client instances constructed so far
  calls,     \* the application's calls into the SDK
  spans,     \* the steps created by _record_generation, with the state of their send task
  probe,     \* one application of _record_generation on its own: inputs and result
  now        \* what time.time() reads

vars == <<sdk, classes, legacy, installs, clients, calls, spans, probe, now>>

\* what the application has done so far
Ops == Len(installs) + Len(clients) + Len(calls)

(***************************************************************************)
(* Function objects.  layers lists the interceptors around the SDK's own   *)
(* function, innermost first; marked is _STEP_SENTINEL_ATTR on the object. *)
(***************************************************************************)
Fn(coro) == [coro |-> coro, layers |-> <<>>, marked |-> FALSE]

Tag(interface, method) == [interface |-> interface, method |-> method]

\* _wrap_callable / _wrap_bound_method return a new function object: an
\* async def when the delegate is a coroutine function, a def otherwise.
_wrap_callable(callable_obj, interface, method) ==
  [coro |-> callable_obj.coro,
   layers |-> Append(callable_obj.layers, Tag(interface, method)),
   marked |-> FALSE]

_wrap_bound_method(bound_method, interface, method) ==
  [coro |-> bound_method.coro,
   layers |-> Append(bound_method.layers, Tag(interface, method)),
   marked |-> FALSE]

LegacyCandidates == <<"generate_text", "generate_content", "generate_message">>

InSeq(x, seq) == \E i \in 1..Len(seq) : seq[i] = x

\* _patch_legacy_sdk without its two sentinel tests
_patch_legacy_sdk_unguarded(legacy_sdk) ==
  [marked |-> TRUE,
   fns |-> [name \in DOMAIN legacy_sdk.fns |->
              IF InSeq(name, LegacyCandidates)
              THEN [_wrap_callable(legacy_sdk.fns[name], "legacy", name)
                      EXCEPT !.marked = TRUE]
              ELSE legacy_sdk.fns[name]]]

_patch_legacy_sdk(legacy_sdk) ==
  IF legacy_sdk.marked THEN legacy_sdk
  ELSE [marked |-> TRUE,
        fns |-> [name \in DOMAIN legacy_sdk.fns |->
                   IF InSeq(name, LegacyCandidates) /\ ~legacy_sdk.fns[name].marked
                   THEN [_wrap_callable(legacy_sdk.fns[name], "legacy", name)
                           EXCEPT !.marked = TRUE]
                   ELSE legacy_sdk.fns[name]]]

\* _patch_client_class without its sentinel test
_patch_client_class_unguarded(client_cls) ==
  [marked |-> TRUE, init |-> client_cls.init + 1]

_patch_client_class(client_cls) ==
  IF client_cls.marked THEN client_cls
  ELSE [marked |-> TRUE, init |-> client_cls.init + 1]

\* _locate_google_sdk patching the legacy module before it looks for the
\* client classes
_locate_google_sdk_legacy_first(env, legacy_sdk) ==
  LET client_class == IF env.genai /\ "Client" \in env.genaiClasses
                      THEN "Client" ELSE "None"
      async_client_class == IF env.genai /\ "AsyncClient" \in env.genaiClasses
                            THEN "AsyncClient" ELSE "None"
      patched == IF env.generativeai THEN _patch_legacy_sdk(legacy_sdk) ELSE legacy_sdk
  IN IF client_class # "None" \/ async_client_class # "None"
     THEN [sdk |-> "genai", client_class |-> client_class,
           async_client_class |-> async_client_class, legacy |-> patched]
     ELSE IF ~env.generativeai
     THEN [sdk |-> "None", client_class |-> "None",
           async_client_class |-> "None", legacy |-> legacy_sdk]
     ELSE [sdk |-> "generativeai", client_class |-> "None",
           async_client_class |-> "None", legacy |-> patched]

\* the tuple _locate_google_sdk returns, with the legacy module as it leaves it
_locate_google_sdk(env, legacy_sdk) ==
  LET client_class == IF env.genai /\ "Client" \in env.genaiClasses
                      THEN "Client" ELSE "None"
      async_client_class == IF env.genai /\ "AsyncClient" \in env.genaiClasses
                            THEN "AsyncClient" ELSE "None"
  IN IF client_class # "None" \/ async_client_class # "None"
     THEN [sdk |-> "genai", client_class |-> client_class,
           async_client_class |-> async_client_class, legacy |-> legacy_sdk]
     ELSE IF ~env.generativeai
     THEN [sdk |-> "None", client_class |-> "None",
           async_client_class |-> "None", legacy |-> legacy_sdk]
     ELSE [sdk |-> "generativeai", client_class |-> "None",
           async_client_class |-> "None", legacy |-> _patch_legacy_sdk(legacy_sdk)]

PatchClass(cls, name) ==
  IF name = "None" THEN cls ELSE [cls EXCEPT ![name] = _patch_client_class(@)]

instrument_google_genai ==
  /\ Len(installs) < MaxInstalls /\ Ops < MaxOps
  /\ LET loc == _locate_google_sdk(sdk, legacy) IN
       /\ legacy' = loc.legacy
       /\ IF loc.client_class = "None" /\ loc.async_client_class = "None"
          THEN /\ installs' = Append(installs, "ValueError")
               /\ UNCHANGED classes
          ELSE /\ installs' = Append(installs, "ok")
               /\ classes' = PatchClass(PatchClass(classes, loc.client_class),
                                        loc.async_client_class)
  /\ UNCHANGED <<sdk, clients, calls, spans, probe, now>>

(***************************************************************************)
(* Client instances.  surf maps an attribute name of the client to the     *)
(* component object behind it (0: the client has no such attribute);       *)
(* comps maps a component to its methods (name -> function object); falsy  *)
(* holds the components whose truth value is False (None, which has no     *)
(* methods, or an object that is empty by its __len__ or __bool__);        *)
(* received is the argument list the SDK's own __init__ was called with.   *)
(***************************************************************************)
SurfaceNames == {"responses", "models", "agents", "sessions", "tools", "files"}

\* the (attribute, method) pairs of the table, in the order the dict and
\* the tuples are iterated
Targets ==
  << <<"responses", "generate">>,
     <<"models", "generate_content">>, <<"models", "generate">>,
     <<"models", "create_completion">>,
     <<"agents", "create">>, <<"agents", "update">>, <<"agents", "delete">>,
     <<"agents", "execute">>, <<"agents", "query">>,
     <<"sessions", "generate">>, <<"sessions", "generate_content">>,
     <<"sessions", "execute">>,
     <<"tools", "execute">> >>

NoSurfaces == [s \in SurfaceNames |-> 0]

\* the client of the reference test: one surface, responses, with generate
ResponsesShape == [surf |-> [NoSurfaces EXCEPT !["responses"] = 1],
                   comps |-> << {"generate"} >>, falsy |-> {}]

\* what the SDK's own constructor builds, fresh for every instance: the
\* shapes of client the applications of Spec construct. The second has
\* several surfaces of the table and one outside it, each a component of
\* its own with methods the table lists and methods it does not
Shapes ==
  { ResponsesShape,
    [surf |-> [NoSurfaces EXCEPT !["models"] = 1, !["sessions"] = 2, !["tools"] = 3,
                                 !["files"] = 4],
     comps |-> << {"generate_content", "count_tokens"}, {"generate"}, {"execute"},
                  {"upload"} >>,
     falsy |-> {}] }

\* the arguments the reference test constructs its client with:
\* genai.Client(api_key="test")
TestArguments == [args |-> <<>>, kwargs |-> << <<"api_key", Str(<<"test">>)>> >>]

\* __init__ of a client class of the SDK, called with (*args, **kwargs):
\* the instance as it leaves it. Every component is a new object; the
\* methods of an AsyncClient are coroutine functions
original_init(cls, shape, arguments) ==
  [cls |-> cls,
   surf |-> shape.surf,
   falsy |-> shape.falsy,
   received |-> arguments,
   comps |-> [c \in DOMAIN shape.comps |->
                [m \in shape.comps[c] |-> Fn(cls = "AsyncClient")]]]

\* one iteration of the inner loop of _instrument_client_instance:
\* getattr(client, attr_name, None) is None when the attribute is missing
InstrumentMethod(client, attr_name, method_name) ==
  LET component == client.surf[attr_name] IN
    IF component = 0 \/ component \in client.falsy THEN client
    ELSE IF method_name \notin DOMAIN client.comps[component] THEN client
    ELSE IF client.comps[component][method_name].marked THEN client
    ELSE [client EXCEPT !.comps[component][method_name] =
            [_wrap_bound_method(@, attr_name, method_name) EXCEPT !.marked = TRUE]]

RECURSIVE InstrumentFrom(_, _)
InstrumentFrom(client, i) ==
  IF i > Len(Targets) THEN client
  ELSE InstrumentFrom(InstrumentMethod(client, Targets[i][1], Targets[i][2]), i + 1)

_instrument_client_instance(client) == InstrumentFrom(client, 1)

\* wrapped_init instrumenting the instance before the __init__ it replaced
\* has built the surfaces
wrapped_init_early(layers, cls, shape, arguments) == original_init(cls, shape, arguments)

\* cls.__init__ after `layers` replacements by _patch_client_class: each
\* wrapped_init runs the __init__ it replaced with the arguments it was
\* given, then instruments the instance
RECURSIVE wrapped_init(_, _, _, _)
wrapped_init(layers, cls, shape, arguments) ==
  IF layers = 0 THEN original_init(cls, shape, arguments)
  ELSE _instrument_client_instance(wrapped_init(layers - 1, cls, shape, arguments))

\* a constructor that instruments the instance whether or not install() ran
Construct_always_wrapped(cls, shape, arguments) ==
  /\ Len(clients) < MaxClients /\ Ops < MaxOps
  /\ sdk.genai /\ cls \in sdk.genaiClasses
  /\ clients' = Append(clients, [obj |-> wrapped_init(1, cls, shape, arguments),
                                 inits |-> classes[cls].init,
                                 given |-> arguments])
  /\ UNCHANGED <<sdk, classes, legacy, installs, calls, spans, probe, now>>

\* the application constructs genai.Client(...) or genai.AsyncClient(...)
\* with `arguments`; inits is the number of wrapped_init layers that ran
Construct(cls, shape, arguments) ==
  /\ Len(clients) < MaxClients /\ Ops < MaxOps
  /\ sdk.genai /\ cls \in sdk.genaiClasses
  /\ clients' = Append(clients, [obj |-> wrapped_init(classes[cls].init, cls, shape,
                                                     arguments),
                                 inits |-> classes[cls].init,
                                 given |-> arguments])
  /\ UNCHANGED <<sdk, classes, legacy, installs, calls, spans, probe, now>>

(***************************************************************************)
(* The ambient state _record_generation reads: the Chainlit context        *)
(* (absent, or present with a current step: 0 is None), local_steps (None  *)
(* or a list of steps, given by their ids) and whether an event loop runs  *)
(* in the calling thread.                                                  *)
(***************************************************************************)
Ambient(ctx, current_step, stepsNone, steps, loop) ==
  [ctx |-> ctx, current_step |-> current_step,
   stepsNone |-> stepsNone, steps |-> steps, loop |-> loop, time |-> 0]

\* the ambient state at the moment the clock reads t
At(env, t) == [env EXCEPT !.time = t]

\* chainlit.utils.timestamp_utc: the UTC date and time of a clock reading, as text
timestamp_utc(t) == [t |-> "utc", at |-> t]

\* chainlit.context.get_context: the context, or ChainlitContextException
get_context(env) ==
  IF env.ctx = "absent" THEN Exc("ChainlitContextException")
  ELSE [t |-> "ctx", current_step |-> env.current_step]

\* ResolveParent taking the oldest of the recent steps
ResolveParent_first(env) ==
  LET got == get_context(env)
      ctx == IF IsExc(got) THEN NoneV ELSE got
      previous_steps == IF env.stepsNone THEN <<>> ELSE env.steps
  IN IF ctx # NoneV /\ ctx.current_step # 0 THEN ctx.current_step
     ELSE IF previous_steps # <<>> THEN previous_steps[1]
     ELSE 0

\* the parent_id _record_generation resolves (0: None)
ResolveParent(env) ==
  LET got == get_context(env)
      ctx == IF IsExc(got) THEN NoneV ELSE got
      previous_steps == IF env.stepsNone THEN <<>> ELSE env.steps
  IN IF ctx # NoneV /\ ctx.current_step # 0 THEN ctx.current_step
     ELSE IF previous_steps # <<>> THEN previous_steps[Len(previous_steps)]
     ELSE 0

\* asyncio.create_task(step.send()): the task is scheduled on the running
\* loop; without one it raises RuntimeError
create_task(env) ==
  IF env.loop THEN NoneV ELSE Exc("RuntimeError")

\* _record_generation: the exception that leaves it (NoneV: it returns),
\* the steps whose send it scheduled and the result object as it leaves it;
\* end_time is the clock's reading when it runs
_record_generation(interface, method, args, kwargs, result, start_time, env) ==
  LET Step(parent_id, model, prompt, output, after) ==
        IF IsExc(model) THEN [exc |-> model, steps |-> <<>>, result |-> result]
        ELSE IF IsExc(output) THEN [exc |-> output, steps |-> <<>>, result |-> after]
        ELSE IF IsExc(create_task(env))
        THEN [exc |-> create_task(env), steps |-> <<>>, result |-> after]
        ELSE [exc |-> NoneV,
              result |-> after,
              steps |-> << [name |-> IF Truthy(model) THEN model
                                     ELSE _default_step_name(interface, method),
                            type |-> "llm",
                            parent_id |-> parent_id,
                            metadata |-> [provider |-> "google", interface |-> interface,
                                          method |-> method],
                            input |-> IF prompt # NoneV THEN prompt
                                      ELSE Dict(<< <<Str(<<"args">>), _simplify(Tuple(args))>>,
                                                   <<Str(<<"kwargs">>),
                                                     _simplify(KwDict(kwargs))>> >>),
                            output |-> output,
                            start |-> timestamp_utc(start_time),
                            end |-> timestamp_utc(env.time)] >>]
  IN Step(ResolveParent(env), _extract_model(args, kwargs, result),
          _extract_prompt(args, kwargs), _extract_output(result),
          ResultAfterExtract(result))

(***************************************************************************)
(* The interceptors.  An outcome is what a call or an await gives: k is    *)
(* "return" or "raise" ("none": not happened yet), v the value or the      *)
(* exception.  An interceptor takes the outcome of what it delegates to,   *)
(* with the steps scheduled below it, and gives its own.                   *)
(***************************************************************************)
NoOutcome == [k |-> "none", v |-> NoneV]
Return(v) == [k |-> "return", v |-> v]
Raise(e) == [k |-> "raise", v |-> e]

\* the body of an interceptor after its delegate gave `inner`: record, then
\* return the result object, as the recorder left it
RecordAndReturn(tag, args, kwargs, start, inner, env) ==
  LET After(rec) == [out |-> IF rec.exc # NoneV THEN Raise(rec.exc) ELSE Return(rec.result),
                     steps |-> inner.steps \o rec.steps]
  IN After(_record_generation(tag.interface, tag.method, args, kwargs, inner.out.v,
                              start, env))

\* _sync_wrapper with the delegate's call in a try block that answers None
_sync_wrapper_catch(tag, args, kwargs, start, inner, env) ==
  IF inner.out.k = "raise" THEN [out |-> Return(NoneV), steps |-> inner.steps]
  ELSE IF inner.out.v = Awaitable THEN inner
  ELSE IF IsStream(inner.out.v) THEN inner
  ELSE RecordAndReturn(tag, args, kwargs, start, inner, env)

\* _sync_wrapper without its isawaitable branch
_sync_wrapper_eager(tag, args, kwargs, start, inner, env) ==
  IF inner.out.k = "raise" THEN inner
  ELSE IF IsStream(inner.out.v) THEN inner
  ELSE RecordAndReturn(tag, args, kwargs, start, inner, env)

\* _sync_wrapper reading the clock for start after its delegate returned
_sync_wrapper_late_start(tag, args, kwargs, start, inner, env) ==
  IF inner.out.k = "raise" THEN inner
  ELSE IF inner.out.v = Awaitable THEN inner
  ELSE IF IsStream(inner.out.v) THEN inner
  ELSE RecordAndReturn(tag, args, kwargs, env.time, inner, env)

\* _sync_wrapper called: an awaitable result is handed to _await_and_record
\* (a new coroutine, nothing recorded yet), a generator is passed through
_sync_wrapper(tag, args, kwargs, start, inner, env) ==
  IF inner.out.k = "raise" THEN inner
  ELSE IF inner.out.v = Awaitable THEN inner
  ELSE IF IsStream(inner.out.v) THEN inner
  ELSE RecordAndReturn(tag, args, kwargs, start, inner, env)

\* _await_and_record recording in a finally block
_await_and_record_finally(tag, args, kwargs, start, inner, env) ==
  RecordAndReturn(tag, args, kwargs, start, inner, env)

\* _await_and_record driven to its end: inner is the outcome of `await result`
_await_and_record(tag, args, kwargs, start, inner, env) ==
  IF inner.out.k = "raise" THEN inner
  ELSE RecordAndReturn(tag, args, kwargs, start, inner, env)

\* _async_wrapper driven to its end: inner is the outcome of awaiting the delegate
_async_wrapper(tag, args, kwargs, start, inner, env) ==
  IF inner.out.k = "raise" THEN inner
  ELSE RecordAndReturn(tag, args, kwargs, start, inner, env)

\* a call that goes through the first n interceptors of fn down to the
\* SDK's function, which gives `d`
RECURSIVE CallThrough(_, _, _, _, _, _, _)
CallThrough(layers, n, args, kwargs, start, d, env) ==
  IF n = 0 THEN [out |-> d, steps |-> <<>>]
  ELSE _sync_wrapper(layers[n], args, kwargs, start,
                     CallThrough(layers, n - 1, args, kwargs, start, d, env), env)

\* awaiting what the call returned, when the SDK's awaitable gives `d`
RECURSIVE AwaitThrough(_, _, _, _, _, _, _, _)
AwaitThrough(coro, layers, n, args, kwargs, start, d, env) ==
  IF n = 0 THEN [out |-> d, steps |-> <<>>]
  ELSE IF coro
  THEN _async_wrapper(layers[n], args, kwargs, start,
                      AwaitThrough(coro, layers, n - 1, args, kwargs, start, d, env), env)
  ELSE _await_and_record(layers[n], args, kwargs, start,
                         AwaitThrough(coro, layers, n - 1, args, kwargs, start, d, env), env)

(***************************************************************************)
(* What the application passes and what the SDK gives back.                *)
(***************************************************************************)
CallArgs ==
  { [args |-> <<>>,
     kwargs |-> << <<"model", Str(<<"models/", "gemini-test">>)>>,
                   <<"contents", Str(<<"hello world">>)>> >>],
    [args |-> <<Str(<<"hi">>)>>, kwargs |-> <<>>] }

FakeResponse ==
  Obj(<< <<"model", Str(<<"models/", "gemini-test">>)>>,
         <<"output_text", Str(<<"echo:", "hello world">>)>>,
         <<"text", Str(<<"echo:", "hello world">>)>>,
         <<"candidates", List(<<>>)>> >>, {})

\* a result whose `text` property raises
BrokenResponse == Obj(<<>>, {"text"})

PlainResults == {FakeResponse, BrokenResponse, NoneV}

Streams == {Generator, AsyncGen}

\* what calling the SDK's function gives
DelegateOutcomes ==
  {Return(v) : v \in PlainResults \cup Streams \cup {Awaitable}} \cup {Raise(Exc("SdkError"))}

\* what awaiting the SDK's awaitable gives
DelegateResolutions ==
  {Return(v) : v \in PlainResults \cup Streams} \cup {Raise(Exc("SdkError"))}

Ambients ==
  { Ambient(ctx, cur, none, steps, loop) :
      ctx \in {"absent", "present"}, cur \in {0, 7}, none \in BOOLEAN,
      steps \in {<<>>, <<8, 9>>}, loop \in BOOLEAN } \
  { e \in [ctx : {"absent", "present"}, current_step : {0, 7}, stepsNone : BOOLEAN,
           steps : {<<>>, <<8, 9>>}, loop : BOOLEAN, time : {0}] :
      (e.ctx = "absent" /\ e.current_step # 0) \/ (e.stepsNone /\ e.steps # <<>>) }

\* the ambient states the calls of the application are made in
CallAmbients ==
  { Ambient("absent", 0, TRUE, <<>>, FALSE),
    Ambient("absent", 0, TRUE, <<>>, TRUE),
    Ambient("absent", 0, FALSE, <<8, 9>>, TRUE),
    Ambient("present", 7, FALSE, <<8, 9>>, TRUE) }

\* the callables the application can reach: the methods of the components
\* of its clients and the functions of the legacy module
Callables ==
  { [client |-> i, attr |-> a, name |-> m,
     fn |-> clients[i].obj.comps[clients[i].obj.surf[a]][m]] :
      <<i, a, m>> \in
        { t \in (1..Len(clients)) \X SurfaceNames \X
                {"generate", "generate_content", "count_tokens", "execute",
                 "upload", "delete"} :
            /\ clients[t[1]].obj.surf[t[2]] # 0
            /\ t[3] \in DOMAIN clients[t[1]].obj.comps[clients[t[1]].obj.surf[t[2]]] } }
  \cup
  { [client |-> 0, attr |-> "module", name |-> m, fn |-> legacy.fns[m]] :
      m \in DOMAIN legacy.fns }

\* the send awaited where it is created
Tasks_awaited(c, steps) == [i \in 1..Len(steps) |-> [call |-> c, step |-> steps[i], task |-> "sent"]]

\* asyncio.create_task(step.send()) for the steps recorded by call c
Tasks(c, steps) == [i \in 1..Len(steps) |-> [call |-> c, step |-> steps[i], task |-> "scheduled"]]

\* a clock reading that was not taken
NoTime == 0 - 1

\* the application calls a function or method that is not a coroutine
\* function; the SDK's function takes `dur` to give d. An interceptor reads
\* the clock (start) and calls its delegate at once
CallSync(target, a, d, env, dur) ==
  /\ Len(calls) < MaxCalls /\ Ops < MaxOps
  /\ now + dur <= MaxTime
  /\ ~target.fn.coro
  /\ \E r \in {CallThrough(target.fn.layers, Len(target.fn.layers),
                             a.args, a.kwargs, now, d, At(env, now + dur))} :
        /\ calls' = Append(calls,
               [client |-> target.client,
                layers |-> target.fn.layers, coro |-> FALSE,
                args |-> a.args, kwargs |-> a.kwargs,
                pc |-> IF r.out = Return(Awaitable) THEN "created" ELSE "done",
                delegated |-> << [args |-> a.args, kwargs |-> a.kwargs] >>,
                dret |-> d, ret |-> r.out, dres |-> NoOutcome, res |-> NoOutcome,
                start |-> IF target.fn.layers = <<>> THEN NoTime ELSE now,
                invoked |-> now,
                available |-> IF d = Return(Awaitable) THEN NoTime ELSE now + dur])
        /\ spans' = spans \o Tasks(Len(calls) + 1, r.steps)
  /\ now' = now + dur
  /\ UNCHANGED <<sdk, classes, legacy, installs, clients, probe>>

\* the application calls a coroutine function: it gets a coroutine object,
\* no code of the function has run
CallAsync(target, a) ==
  /\ Len(calls) < MaxCalls /\ Ops < MaxOps
  /\ target.fn.coro
  /\ LET bare == target.fn.layers = <<>> IN
       calls' = Append(calls,
               [client |-> target.client,
                layers |-> target.fn.layers, coro |-> TRUE,
                args |-> a.args, kwargs |-> a.kwargs,
                pc |-> "created",
                delegated |-> IF bare THEN << [args |-> a.args, kwargs |-> a.kwargs] >>
                              ELSE <<>>,
                dret |-> IF bare THEN Return(Awaitable) ELSE NoOutcome,
                ret |-> Return(Awaitable), dres |-> NoOutcome, res |-> NoOutcome,
                start |-> NoTime,
                invoked |-> IF bare THEN now ELSE NoTime,
                available |-> NoTime])
  /\ UNCHANGED <<sdk, classes, legacy, installs, clients, spans, probe, now>>

\* the application awaits what call c returned: the coroutine runs up to its
\* await of the SDK's awaitable (_async_wrapper reads the clock and calls the
\* delegate first)
Drive(c) ==
  /\ calls[c].pc = "created"
  /\ calls' = [calls EXCEPT ![c] =
       IF @.coro /\ @.layers # <<>>
       THEN [@ EXCEPT !.pc = "awaiting",
                      !.delegated = Append(@, [args |-> calls[c].args,
                                               kwargs |-> calls[c].kwargs]),
                      !.dret = Return(Awaitable),
                      !.start = now, !.invoked = now]
       ELSE [@ EXCEPT !.pc = "awaiting"]]
  /\ UNCHANGED <<sdk, classes, legacy, installs, clients, spans, probe, now>>

\* the SDK's awaitable of call c gives d and the coroutine runs to its end
Resolve(c, d, env) ==
  /\ calls[c].pc = "awaiting"
  /\ env.loop
  /\ \E r \in {AwaitThrough(calls[c].coro, calls[c].layers, Len(calls[c].layers),
                              calls[c].args, calls[c].kwargs, calls[c].start, d,
                              At(env, now))} :
        /\ calls' = [calls EXCEPT ![c] = [@ EXCEPT !.pc = "done", !.dres = d,
                                                   !.res = r.out,
                                                   !.available = now]]
        /\ spans' = spans \o Tasks(c, r.steps)
  /\ UNCHANGED <<sdk, classes, legacy, installs, clients, probe, now>>

\* the caller's task is cancelled while call c is suspended in its await of
\* the SDK's awaitable: CancelledError is raised at that await
Cancel(c, env) ==
  /\ calls[c].pc = "awaiting"
  /\ env.loop
  /\ \E r \in {AwaitThrough(calls[c].coro, calls[c].layers, Len(calls[c].layers),
                              calls[c].args, calls[c].kwargs, calls[c].start,
                              Raise(Exc("CancelledError")), At(env, now))} :
        /\ calls' = [calls EXCEPT ![c] = [@ EXCEPT !.pc = "cancelled",
                                                   !.res = r.out]]
        /\ spans' = spans \o Tasks(c, r.steps)
  /\ UNCHANGED <<sdk, classes, legacy, installs, clients, probe, now>>

\* time passes; the clock is taken never to be set back
Tick ==
  /\ now < MaxTime
  /\ now' = now + 1
  /\ UNCHANGED <<sdk, classes, legacy, installs, clients, calls, spans, probe>>

\* the event loop starts the task of step.send()
SendStart(i) ==
  /\ spans[i].task = "scheduled"
  /\ spans' = [spans EXCEPT ![i].task = "running"]
  /\ UNCHANGED <<sdk, classes, legacy, installs, clients, calls, probe, now>>

\* step.send() returns
SendFinish(i) ==
  /\ spans[i].task = "running"
  /\ spans' = [spans EXCEPT ![i].task = "sent"]
  /\ UNCHANGED <<sdk, classes, legacy, installs, clients, calls, probe, now>>

\* step.send() raises
SendFail(i) ==
  /\ spans[i].task = "running"
  /\ spans' = [spans EXCEPT ![i].task = "failed"]
  /\ UNCHANGED <<sdk, classes, legacy, installs, clients, calls, probe, now>>

(***************************************************************************)
(* _record_generation applied on its own to one set of inputs.             *)
(***************************************************************************)
NoProbe == [pc |-> "off"]

RecordInterfaces == {Tag("responses", "generate"), Tag("legacy", "generate_text")}

RecordProbe ==
  /\ probe.pc = "input"
  /\ probe' = [probe EXCEPT !.pc = "recorded",
                 !.out = _record_generation(probe.tag.interface, probe.tag.method,
                                            probe.args, probe.kwargs, probe.result,
                                            now, At(probe.env, now))]
  /\ UNCHANGED <<sdk, classes, legacy, installs, clients, calls, spans, now>>

(***************************************************************************)
(* Spec: the life of the process from its start. The application installs  *)
(* the instrumentation, constructs clients and calls the SDK, in any       *)
(* order.                                                                  *)
(***************************************************************************)
Init ==
  /\ sdk \in SdkEnvs
  /\ classes = [c \in ClientClasses |-> [marked |-> FALSE, init |-> 0]]
  /\ legacy = [marked |-> FALSE,
               fns |-> [n \in DOMAIN sdk.legacyModule |-> Fn(sdk.legacyModule[n])]]
  /\ installs = <<>>
  /\ clients = <<>>
  /\ calls = <<>>
  /\ spans = <<>>
  /\ now = 0
  /\ probe = NoProbe

\* the calls of Spec: one argument list, made with and without a running loop
SpecArgs == { a \in CallArgs : a.args = <<>> }
SpecOutcomes ==
  {Return(FakeResponse), Return(Generator), Return(Awaitable), Raise(Exc("SdkError"))}
SpecResolutions == {Return(FakeResponse), Raise(Exc("SdkError"))}
SpecAmbients == { e \in CallAmbients : e.ctx = "absent" /\ e.steps = <<>> }

Next ==
  \/ instrument_google_genai
  \/ \E cls \in ClientClasses, shape \in Shapes : Construct(cls, shape, TestArguments)
  \/ \E target \in Callables, a \in SpecArgs, d \in SpecOutcomes, env \in SpecAmbients :
       CallSync(target, a, d, env, 0)
  \/ \E target \in Callables, a \in SpecArgs : CallAsync(target, a)
  \/ \E c \in 1..Len(calls) : Drive(c)
  \/ \E c \in 1..Len(calls), d \in SpecResolutions, env \in SpecAmbients :
       Resolve(c, d, env)

Spec == Init /\ [][Next]_vars

(***************************************************************************)
(* SpecBuild: install() and the construction of clients, in any order.     *)
(* The clients are constructed with and without arguments, and some have   *)
(* surfaces whose attribute holds None or an object that is empty.         *)
(***************************************************************************)
\* the shapes of Spec, and a client whose agents surface is an object that
\* is empty (its truth value is False) and has methods, and whose tools
\* attribute is None
BuildShapes ==
  Shapes \cup
  { [surf |-> [NoSurfaces EXCEPT !["responses"] = 1, !["agents"] = 2, !["tools"] = 3],
     comps |-> << {"generate", "close"}, {"create", "query", "list"}, {} >>,
     falsy |-> {2, 3}] }

\* the argument lists a client is constructed with: none, the test's, and
\* a positional argument with a keyword
BuildArguments ==
  { [args |-> <<>>, kwargs |-> <<>>],
    TestArguments,
    [args |-> <<Str(<<"key">>)>>, kwargs |-> << <<"vertexai", BoolV(TRUE)>> >>] }

NextBuild ==
  \/ instrument_google_genai
  \/ \E cls \in ClientClasses, shape \in BuildShapes, arguments \in BuildArguments :
       Construct(cls, shape, arguments)

SpecBuild == Init /\ [][NextBuild]_vars

(***************************************************************************)
(* SpecCall: the calls of an application whose SDK is instrumented, with   *)
(* the event loop running the send tasks. It starts where Spec gets after  *)
(* install() and the construction of a client (or after install() patched  *)
(* the legacy module).                                                     *)
(***************************************************************************)
ModernSdk ==
  [genai |-> TRUE, genaiClasses |-> ClientClasses, generativeai |-> FALSE,
   legacyModule |-> NoModule]

LegacySdk ==
  [genai |-> FALSE, genaiClasses |-> {}, generativeai |-> TRUE,
   legacyModule |-> [generate_text |-> FALSE, generate_content |-> FALSE,
                     generate_message |-> TRUE, count_tokens |-> FALSE]]

InitCall ==
  /\ \/ /\ sdk = ModernSdk
        /\ classes = [c \in ClientClasses |-> [marked |-> TRUE, init |-> 1]]
        /\ legacy = [marked |-> FALSE, fns |-> <<>>]
        /\ installs = <<"ok">>
        /\ \E cls \in ClientClasses :
             clients = << [obj |-> wrapped_init(1, cls, ResponsesShape, TestArguments),
                           inits |-> 1, given |-> TestArguments] >>
     \/ /\ sdk = LegacySdk
        /\ classes = [c \in ClientClasses |-> [marked |-> FALSE, init |-> 0]]
        /\ legacy = _patch_legacy_sdk(
                      [marked |-> FALSE,
                       fns |-> [n \in DOMAIN sdk.legacyModule |-> Fn(sdk.legacyModule[n])]])
        /\ installs = <<"ValueError">>
        /\ clients = <<>>
  /\ calls = <<>>
  /\ spans = <<>>
  /\ now = 0
  /\ probe = NoProbe

NextCall ==
  \/ \E target \in Callables, a \in CallArgs, d \in DelegateOutcomes, env \in CallAmbients :
       CallSync(target, a, d, env, 0)
  \/ \E target \in Callables, a \in CallArgs : CallAsync(target, a)
  \/ \E c \in 1..Len(calls) : Drive(c)
  \/ \E c \in 1..Len(calls), d \in DelegateResolutions, env \in CallAmbients :
       Resolve(c, d, env)
  \/ \E c \in 1..Len(calls), env \in CallAmbients : Cancel(c, env)
  \/ \E i \in 1..Len(spans) : SendStart(i)
  \/ \E i \in 1..Len(spans) : SendFinish(i)
  \/ \E i \in 1..Len(spans) : SendFail(i)

SpecCall == InitCall /\ [][NextCall]_vars

(***************************************************************************)
(* SpecTest: the scenario of the reference test. install() has patched the *)
(* client class of the modern SDK and a client was constructed; every call *)
(* is made inside an active execution context with a running event loop,   *)
(* with keyword arguments model and contents, and step.send() is the       *)
(* test's fake_send, which returns.                                        *)
(***************************************************************************)
InitTest == InitCall /\ sdk = ModernSdk

TestAmbients ==
  { Ambient("present", 0, TRUE, <<>>, TRUE),
    Ambient("present", 7, FALSE, <<8, 9>>, TRUE) }

TestModels == {Str(<<"models/", "gemini-test">>), Str(<<"gemini-pro">>), Str(<<>>)}
TestContents == {Str(<<"hello world">>), Str(<<>>)}

TestCalls ==
  { [args |-> <<>>, kwargs |-> << <<"model", m>>, <<"contents", c>> >>] :
      m \in TestModels, c \in TestContents }

\* a result that exposes its output text and nothing else
TextResponse == Obj(<< <<"output_text", Str(<<"ok">>)>> >>, {})

\* a result whose candidates are a generator
LazyResponse ==
  Obj(<< <<"candidates",
           Gen(<<Obj(<< <<"content",
                          Obj(<< <<"parts", List(<<Obj(<< <<"text", Str(<<"g">>)>> >>, {})>>)>> >>,
                              {})>> >>, {})>>)>> >>, {})

\* a result whose output text is empty and whose `text` is not
EmptyOutputResponse ==
  Obj(<< <<"output_text", Str(<<>>)>>, <<"text", Str(<<"alt">>)>> >>, {})

\* a result that exposes an empty output text and nothing else
EmptyTextResponse == Obj(<< <<"output_text", Str(<<>>)>> >>, {})

TestResolutions ==
  {Return(FakeResponse), Return(TextResponse), Return(LazyResponse),
   Return(EmptyOutputResponse), Return(EmptyTextResponse), Raise(Exc("SdkError"))}
TestOutcomes == TestResolutions \cup {Return(Awaitable), Return(Generator)}

NextTest ==
  \/ \E target \in Callables, a \in TestCalls, d \in TestOutcomes, env \in TestAmbients :
       CallSync(target, a, d, env, 0)
  \/ \E target \in Callables, a \in TestCalls : CallAsync(target, a)
  \/ \E c \in 1..Len(calls) : Drive(c)
  \/ \E c \in 1..Len(calls), d \in TestResolutions, env \in TestAmbients :
       Resolve(c, d, env)
  \/ \E i \in 1..Len(spans) : SendStart(i)
  \/ \E i \in 1..Len(spans) : SendFinish(i)

SpecTest == InitTest /\ [][NextTest]_vars

(***************************************************************************)
(* SpecTime: the calls of an instrumented application against the clock.   *)
(* Time passes while the SDK's function runs and between the steps of the  *)
(* application; the clock is never set back.                               *)
(***************************************************************************)
TimeCalls == { a \in CallArgs : a.args = <<>> }
TimeAmbients == { Ambient("absent", 0, TRUE, <<>>, TRUE) }
TimeOutcomes == {Return(FakeResponse), Return(Awaitable), Raise(Exc("SdkError"))}
TimeResolutions == {Return(FakeResponse), Raise(Exc("SdkError"))}

\* how long the SDK's function takes to return
Durations == {0, 1}

NextTime ==
  \/ \E target \in Callables, a \in TimeCalls, d \in TimeOutcomes, env \in TimeAmbients,
          dur \in Durations :
       CallSync(target, a, d, env, dur)
  \/ \E target \in Callables, a \in TimeCalls : CallAsync(target, a)
  \/ \E c \in 1..Len(calls) : Drive(c)
  \/ \E c \in 1..Len(calls), d \in TimeResolutions, env \in TimeAmbients :
       Resolve(c, d, env)
  \/ Tick

SpecTime == InitCall /\ [][NextTime]_vars

(***************************************************************************)
(* SpecRecord: _record_generation on every combination of the inputs.      *)
(***************************************************************************)
InitRecord ==
  /\ sdk = ModernSdk
  /\ classes = [c \in ClientClasses |-> [marked |-> FALSE, init |-> 0]]
  /\ legacy = [marked |-> FALSE, fns |-> <<>>]
  /\ installs = <<>>
  /\ clients = <<>>
  /\ calls = <<>>
  /\ spans = <<>>
  /\ now = 0
  /\ \E tag \in RecordInterfaces, a \in CallArgs, result \in PlainResults, env \in Ambients :
       probe = [pc |-> "input", tag |-> tag, args |-> a.args, kwargs |-> a.kwargs,
                result |-> result, env |-> env,
                out |-> [exc |-> NoneV, steps |-> <<>>, result |-> result]]

NextRecord == RecordProbe

SpecRecord == InitRecord /\ [][NextRecord]_vars

(***************************************************************************)
(* SpecExtract: _record_generation on arguments and results of the shapes  *)
(* its extraction rules tell apart, in one ambient state.                  *)
(***************************************************************************)
Part(text) == Obj(<< <<"text", text>> >>, {})
Content(parts) == Obj(<< <<"parts", parts>> >>, {})
Candidate(parts) == Obj(<< <<"content", Content(List(parts))>> >>, {})
Nested == Obj(<< <<"output_text", Str(<<"nested">>)>> >>, {})

\* positional arguments
ExtractArgLists ==
  { <<>>,
    <<Str(<<"hi">>)>>,
    <<Str(<<"models/", "pos">>)>>,
    <<IntV(3), Dict(<< <<Str(<<"model">>), Str(<<"in-dict">>)>> >>)>>,
    <<Dict(<< <<Str(<<"model">>), IntV(5)>> >>)>>,
    <<Tuple(<<Str(<<"t">>)>>)>>,
    <<IntV(3)>>,
    <<List(<<Str(<<"l">>)>>), Str(<<"models/", "second">>)>>,
    <<Dict(<< <<Tuple(<<IntV(1)>>), Str(<<"a">>)>> >>)>> }

\* keyword arguments, in the order the caller wrote them
ExtractKwLists ==
  { <<>>,
    << <<"model", Str(<<"models/", "gemini-test">>)>>,
       <<"contents", Str(<<"hello world">>)>> >>,
    << <<"model", Str(<<>>)>> >>,
    << <<"model", IntV(5)>>, <<"prompt", Str(<<"p">>)>> >>,
    << <<"text", Str(<<"x">>)>>, <<"messages", List(<<Str(<<"m">>)>>)>> >>,
    << <<"contents", NoneV>> >>,
    << <<"input", Dict(<< <<IntV(1), Str(<<"one">>)>> >>)>> >>,
    << <<"contents", Obj(<< <<"_other", IntV(2)>>, <<"pub", IntV(3)>> >>, {})>> >> }

\* results of the SDK
ExtractResults ==
  { NoneV,
    FakeResponse,
    Str(<<"plain">>),
    Obj(<< <<"text", Str(<<>>)>>, <<"response_text", Str(<<"rt">>)>>,
           <<"candidates", List(<<Candidate(<<Part(Str(<<"a">>))>>)>>)>> >>, {}),
    Obj(<< <<"model_name", Str(<<"m2">>)>>,
           <<"candidates", List(<<Candidate(<<Part(Str(<<"a">>)), Part(Str(<<>>))>>),
                                  Candidate(<<Part(Str(<<"b">>))>>)>>)>> >>, {}),
    Obj(<< <<"model", IntV(5)>>, <<"model_version", Str(<<"v1">>)>>,
           <<"candidates", List(<<Obj(<<>>, {}),
                                  Obj(<< <<"content", Obj(<<>>, {})>> >>, {}),
                                  Candidate(<<Part(Str(<<"c">>))>>)>>)>> >>, {}),
    Obj(<< <<"note", Str(<<"n">>)>>,
           <<"candidates", List(<<Candidate(<<Part(Str(<<>>))>>)>>)>> >>, {}),
    Obj(<< <<"candidates", List(<<Candidate(<<Part(Str(<<"a">>)),
                                              Obj(<<>>, {"text"})>>)>>)>>,
           <<"response", Nested>> >>, {}),
    Obj(<< <<"candidates", List(<<Obj(<<>>, {"content"})>>)>>,
           <<"response", Nested>> >>, {}),
    Obj(<< <<"candidates", IntV(3)>> >>, {}),
    Obj(<< <<"candidates", List(<<Obj(<< <<"content", Content(IntV(3))>> >>, {})>>)>> >>, {}),
    Obj(<< <<"candidates", List(<<Candidate(<<Part(IntV(5))>>)>>)>> >>, {}),
    Obj(<< <<"candidates", SetV(<<Candidate(<<Part(Str(<<"a">>))>>)>>)>> >>, {}),
    Obj(<< <<"candidates",
             List(<<Obj(<< <<"content", Content(SetV(<<Part(Str(<<"p">>))>>))>> >>, {})>>)>> >>,
        {}),
    Obj(<< <<"candidates", Gen(<<Candidate(<<Part(Str(<<"g">>))>>)>>)>>,
           <<"response", Nested>> >>, {}),
    Dict(<< <<Tuple(<<IntV(1)>>), Str(<<"a">>)>>, <<Tuple(<<IntV(2)>>), Str(<<"b">>)>> >>) }

InitExtract ==
  /\ sdk = ModernSdk
  /\ classes = [c \in ClientClasses |-> [marked |-> FALSE, init |-> 0]]
  /\ legacy = [marked |-> FALSE, fns |-> <<>>]
  /\ installs = <<>>
  /\ clients = <<>>
  /\ calls = <<>>
  /\ spans = <<>>
  /\ now = 0
  /\ \E args \in ExtractArgLists, kwargs \in ExtractKwLists, result \in ExtractResults :
       probe = [pc |-> "input", tag |-> Tag("models", "generate_content"),
                args |-> args, kwargs |-> kwargs, result |-> result,
                env |-> Ambient("absent", 0, TRUE, <<>>, TRUE),
                out |-> [exc |-> NoneV, steps |-> <<>>, result |-> result]]

SpecExtract == InitExtract /\ [][NextRecord]_vars

(***************************************************************************)
(* SpecSimplify: _simplify on its own, on acyclic values of every kind it  *)
(* tells apart, nested up to two levels.                                   *)
(***************************************************************************)
SimplifyProbe ==
  /\ probe.pc = "value"
  /\ probe' = [probe EXCEPT !.pc = "simplified", !.out = _simplify(probe.value)]
  /\ UNCHANGED <<sdk, classes, legacy, installs, clients, calls, spans, now>>

\* values without parts
SimplifyLeaves ==
  { NoneV, Str(<<"a">>), IntV(1), BoolV(TRUE), Opaque, Generator,
    Dumpable(Exc("DumpError")),
    Dumpable(Dict(<< <<IntV(2), Opaque>> >>)) }

\* keys of a dict (1 and True are the same key in Python: one of them; two
\* objects that are keys of one dict are two objects, alike or not)
SimplifyKeys ==
  { Str(<<"1">>), IntV(1), NoneV, BoolV(FALSE), Tuple(<<IntV(1)>>), Str(<<"(1,)">>), Opaque }

\* containers and objects whose parts are taken from `parts`
Composites(parts) ==
  { Dict(<< <<k1, x>>, <<k2, y>> >>) :
      <<k1, k2>> \in { kk \in SimplifyKeys \X SimplifyKeys : kk[1] # kk[2] },
      <<x, y>> \in { Str(<<"a">>) } \X parts }
  \cup { List(<<x, IntV(1)>>) : x \in parts }
  \cup { Tuple(<<x>>) : x \in parts }
  \cup { SetV(<<IntV(1), Str(<<"a">>)>>), SetV(<<Str(<<"a">>), IntV(1)>>), List(<<>>), Dict(<<>>) }
  \cup { Dict(<< <<k, Str(<<"a">>)>>, <<k, Str(<<"b">>)>> >>) :
            k \in { Opaque, Obj(<< <<"a", IntV(1)>> >>, {}), Tuple(<<Opaque>>) } }
  \cup { Dict(<< <<Obj(<< <<"a", IntV(1)>> >>, {}), Str(<<"a">>)>>,
                 <<Obj(<< <<"a", IntV(2)>> >>, {}), Str(<<"b">>)>> >>) }
  \cup { Obj(<< <<"_raw", Opaque>>, <<"text", x>>, <<"_api_client", x>>, <<"n", IntV(1)>>,
                 <<"__dunder__", IntV(1)>>, <<"_", IntV(2)>> >>, {}) :
            x \in parts }

\* a few values of the first level, to be nested again
SimplifyInner ==
  { Dict(<< <<IntV(1), Opaque>>, <<Str(<<"1">>), Str(<<"a">>)>> >>),
    Tuple(<<Opaque>>),
    SetV(<<IntV(1), Str(<<"a">>)>>),
    Obj(<< <<"_raw", Opaque>>, <<"text", Dumpable(Exc("DumpError"))>> >>, {}) }

SimplifyInputs ==
  SimplifyLeaves \cup Composites(SimplifyLeaves) \cup Composites(SimplifyInner)
  \cup { Dumpable(x) : x \in SimplifyInner }

InitSimplify ==
  /\ sdk = ModernSdk
  /\ classes = [c \in ClientClasses |-> [marked |-> FALSE, init |-> 0]]
  /\ legacy = [marked |-> FALSE, fns |-> <<>>]
  /\ installs = <<>>
  /\ clients = <<>>
  /\ calls = <<>>
  /\ spans = <<>>
  /\ now = 0
  /\ \E value \in SimplifyInputs : probe = [pc |-> "value", value |-> value, out |-> NoneV]

NextSimplify == SimplifyProbe

SpecSimplify == InitSimplify /\ [][NextSimplify]_vars

(***************************************************************************)
(* SpecHandOff: _record_generation statement by statement. The span is the *)
(* object the recorder holds in `step`; the send task scheduled for it     *)
(* holds the same object.                                                  *)
(***************************************************************************)
\* the value of an attribute the recorder has not assigned
Unset == [t |-> "unset"]

\* Step(name=..., type="llm", parent_id=..., metadata=...)
NewStep(name, parent_id, metadata) ==
  [name |-> name, type |-> "llm", parent_id |-> parent_id, metadata |-> metadata,
   input |-> Unset, output |-> Unset, start |-> Unset, end |-> Unset]

\* the statements of _record_generation that touch the span, in program
\* order, with the send scheduled before the end is written
Statements_end_after_task == <<"Step", "input", "output", "start", "create_task", "end">>

\* the statements of _record_generation that touch the span, in program order
Statements == <<"Step", "input", "output", "start", "end", "create_task">>

StepFields == {"input", "output", "start", "end"}

\* the recorder up to end_time = time.time(): context, parent, extraction
RecordExtract ==
  /\ probe.pc = "called"
  /\ \E model \in {_extract_model(probe.args, probe.kwargs, probe.result)},
        prompt \in {_extract_prompt(probe.args, probe.kwargs)},
        output \in {_extract_output(probe.result)} :
       probe' =
         IF IsExc(model) THEN [probe EXCEPT !.pc = "raised", !.exc = model]
         ELSE IF IsExc(output)
         THEN [probe EXCEPT !.pc = "raised", !.exc = output,
                            !.result = ResultAfterExtract(probe.result)]
         ELSE [probe EXCEPT !.pc = "running", !.at = 1,
                 !.result = ResultAfterExtract(probe.result),
                 !.locals = [parent_id |-> ResolveParent(probe.env),
                             name |-> IF Truthy(model) THEN model
                                      ELSE _default_step_name(probe.tag.interface,
                                                              probe.tag.method),
                             input |-> IF prompt # NoneV THEN prompt
                                       ELSE Dict(<< <<Str(<<"args">>),
                                                      _simplify(Tuple(probe.args))>>,
                                                    <<Str(<<"kwargs">>),
                                                      _simplify(KwDict(probe.kwargs))>> >>),
                             output |-> output,
                             start |-> timestamp_utc(probe.start_time),
                             end |-> timestamp_utc(now)]]
  /\ UNCHANGED <<sdk, classes, legacy, installs, clients, calls, spans, now>>

\* step = Step(...)
RecordConstruct ==
  /\ probe.pc = "running" /\ probe.at <= Len(Statements)
  /\ Statements[probe.at] = "Step"
  /\ probe' = [probe EXCEPT !.at = @ + 1,
                 !.step = NewStep(probe.locals.name, probe.locals.parent_id,
                                  [provider |-> "google",
                                   interface |-> probe.tag.interface,
                                   method |-> probe.tag.method])]
  /\ UNCHANGED <<sdk, classes, legacy, installs, clients, calls, spans, now>>

\* step.input = ..., step.output = ..., step.start = ..., step.end = ...: the
\* send task holds the object that is written
RecordSet(field) ==
  /\ probe.pc = "running" /\ probe.at <= Len(Statements)
  /\ Statements[probe.at] = field
  /\ probe' = [probe EXCEPT !.at = @ + 1, !.step[field] = probe.locals[field]]
  /\ spans' = [i \in 1..Len(spans) |-> [spans[i] EXCEPT !.step = probe'.step]]
  /\ UNCHANGED <<sdk, classes, legacy, installs, clients, calls, now>>

\* asyncio.create_task(step.send())
RecordSchedule ==
  /\ probe.pc = "running" /\ probe.at <= Len(Statements)
  /\ Statements[probe.at] = "create_task"
  /\ IF IsExc(create_task(probe.env))
     THEN /\ probe' = [probe EXCEPT !.pc = "raised", !.exc = create_task(probe.env)]
          /\ spans' = spans
     ELSE /\ probe' = [probe EXCEPT !.at = @ + 1]
          /\ spans' = Append(spans, [call |-> 0, step |-> probe.step, task |-> "scheduled"])
  /\ UNCHANGED <<sdk, classes, legacy, installs, clients, calls, now>>

\* _record_generation returns
RecordReturn ==
  /\ probe.pc = "running" /\ probe.at = Len(Statements) + 1
  /\ probe' = [probe EXCEPT !.pc = "returned"]
  /\ UNCHANGED <<sdk, classes, legacy, installs, clients, calls, spans, now>>

InitHandOff ==
  /\ sdk = ModernSdk
  /\ classes = [c \in ClientClasses |-> [marked |-> FALSE, init |-> 0]]
  /\ legacy = [marked |-> FALSE, fns |-> <<>>]
  /\ installs = <<>>
  /\ clients = <<>>
  /\ calls = <<>>
  /\ spans = <<>>
  /\ now \in 0..MaxTime
  /\ \E tag \in RecordInterfaces, a \in CallArgs, result \in PlainResults,
        env \in CallAmbients :
       probe = [pc |-> "called", tag |-> tag, args |-> a.args, kwargs |-> a.kwargs,
                result |-> result, start_time |-> 0, env |-> env,
                at |-> 0, locals |-> NoneV, step |-> NoneV, exc |-> NoneV]

NextHandOff ==
  \/ RecordExtract
  \/ RecordConstruct
  \/ \E field \in StepFields : RecordSet(field)
  \/ RecordSchedule
  \/ RecordReturn
  \/ \E i \in 1..Len(spans) : SendStart(i)
  \/ \E i \in 1..Len(spans) : SendFinish(i)

SpecHandOff == InitHandOff /\ [][NextHandOff]_vars

(***************************************************************************)
(* The claims.                                                             *)
(***************************************************************************)
\* the send tasks scheduled by call c
SpansOf(c) == {i \in 1..Len(spans) : spans[i].call = c}

\* the methods of a client object that the table of
\* _instrument_client_instance names: <<component, method>>
TargetMethods(obj) ==
  { <<obj.surf[Targets[i][1]], Targets[i][2]>> : i \in
      { j \in 1..Len(Targets) :
          /\ obj.surf[Targets[j][1]] # 0
          /\ Targets[j][2] \in DOMAIN obj.comps[obj.surf[Targets[j][1]]] } }

\* install() fell back to the legacy module
LegacyFallback == sdk.generativeai /\ ~(sdk.genai /\ sdk.genaiClasses # {})

\* C1: however often install() is called and whenever clients are
\* constructed, a client class has at most one wrapped_init (exactly one
\* once install() has run), a method or legacy function has at most one
\* interceptor (exactly one on every target method of a client constructed
\* after install() and on every listed legacy function once the legacy
\* module is patched), and no call schedules more than one span.
C1_IdempotentPatching ==
  /\ \A cls \in ClientClasses :
       /\ classes[cls].init <= 1
       /\ (installs # <<>> /\ sdk.genai /\ cls \in sdk.genaiClasses
             => classes[cls].init = 1)
  /\ \A i \in 1..Len(clients) :
       /\ \A comp \in DOMAIN clients[i].obj.comps :
            \A m \in DOMAIN clients[i].obj.comps[comp] :
              Len(clients[i].obj.comps[comp][m].layers) <= 1
       /\ (clients[i].inits >= 1 =>
             \A t \in TargetMethods(clients[i].obj) :
               Len(clients[i].obj.comps[t[1]][t[2]].layers) = 1)
  /\ \A n \in DOMAIN legacy.fns :
       /\ Len(legacy.fns[n].layers) <= 1
       /\ (installs # <<>> /\ LegacyFallback /\ InSeq(n, LegacyCandidates)
             => Len(legacy.fns[n].layers) = 1)
  /\ \A c \in 1..Len(calls) : Cardinality(SpansOf(c)) <= 1

\* install() ran twice, a client was constructed afterwards, and a call to
\* one of its intercepted methods scheduled its span
C1_Witness ==
  /\ Len(installs) = 2
  /\ \E c \in 1..Len(calls) :
       /\ calls[c].client # 0
       /\ clients[calls[c].client].inits = 1
       /\ calls[c].layers # <<>>
       /\ calls[c].pc = "done"
       /\ Cardinality(SpansOf(c)) = 1

\* C2: install() raises the configuration error exactly when neither the
\* modern nor the legacy SDK is importable.
C2_RaisesIffNoSdkImportable ==
  \A i \in 1..Len(installs) :
    (installs[i] = "ValueError") <=> (~sdk.genai /\ ~sdk.generativeai)

\* the calls that went through an interceptor
Intercepted == {c \in 1..Len(calls) : calls[c].layers # <<>>}

\* C3: whenever the delegate of an intercepted call returns (or its
\* awaitable resolves) normally, the caller gets that result: nothing
\* raised inside _record_generation reaches it.
C3_RecordNeverRaises ==
  \A c \in Intercepted :
    /\ (calls[c].dret.k = "return" => calls[c].ret.k = "return")
    /\ (calls[c].dres.k = "return" => calls[c].res = calls[c].dres)

\* C4: an exception raised by the SDK's function, when it is called or
\* when its awaitable is awaited, reaches the caller as that exception and
\* the call schedules no span.
C4_SdkExceptionPropagates ==
  \A c \in Intercepted :
    /\ (calls[c].dret.k = "raise" =>
          calls[c].ret = calls[c].dret /\ SpansOf(c) = {})
    /\ (calls[c].dres.k = "raise" =>
          calls[c].res = calls[c].dres /\ SpansOf(c) = {})

\* the SDK raised in all three places: in a plain call, in an awaited
\* coroutine function and in a returned awaitable
C4_Witness ==
  \E c \in Intercepted :
    /\ ~calls[c].coro
    /\ calls[c].pc = "done"
    /\ calls[c].dret = Return(Awaitable)
    /\ calls[c].dres = Raise(Exc("SdkError"))
    /\ calls[c].res = Raise(Exc("SdkError"))

\* C5: every completed intercepted call whose result is not a stream
\* schedules exactly one span: a plain call that returns a value, an
\* awaited coroutine function, a returned awaitable driven to its result.
C5_ExactlyOneSpan ==
  \A c \in Intercepted :
    /\ (~calls[c].coro /\ calls[c].dret.k = "return" /\ calls[c].dret.v \in PlainResults
          => Cardinality(SpansOf(c)) = 1)
    /\ (calls[c].dres.k = "return" /\ calls[c].dres.v \in PlainResults
          => Cardinality(SpansOf(c)) = 1)

\* C6: a generator or async generator given by the SDK, directly or as the
\* result of an await, is passed to the caller and no span is scheduled.
C6_StreamsScheduleNothing ==
  \A c \in Intercepted :
    /\ (calls[c].dret.k = "return" /\ calls[c].dret.v \in Streams
          => calls[c].ret = calls[c].dret /\ SpansOf(c) = {})
    /\ (calls[c].dres.k = "return" /\ calls[c].dres.v \in Streams
          => calls[c].res = calls[c].dres /\ SpansOf(c) = {})

\* the output a span has for each result of the pool
ExpectedOutput(v) ==
  CASE v = FakeResponse -> Str(<<"echo:", "hello world">>)
    [] v = NoneV -> NoneV
    [] v = Generator -> Str(<<"<", "generator", " object>">>)
    [] v = AsyncGen -> Str(<<"<", "asyncgen", " object>">>)

\* C7: when a function that is not a coroutine function returns an
\* awaitable, the interceptor returns an awaitable and records nothing;
\* a span exists only once the awaitable has resolved, and its output is
\* that of the resolved value.
C7_RecordsAfterResolution ==
  \A c \in Intercepted :
    (~calls[c].coro /\ calls[c].dret = Return(Awaitable)) =>
      /\ calls[c].ret = Return(Awaitable)
      /\ (calls[c].pc # "done" => SpansOf(c) = {})
      /\ \A i \in SpansOf(c) :
           /\ calls[c].dres.k = "return"
           /\ spans[i].step.output = ExpectedOutput(calls[c].dres.v)

C7_Witness ==
  \E c \in Intercepted :
    /\ ~calls[c].coro /\ calls[c].dret = Return(Awaitable)
    /\ calls[c].pc = "done"
    /\ calls[c].dres = Return(FakeResponse)
    /\ \E i \in SpansOf(c) : spans[i].step.output = Str(<<"echo:", "hello world">>)

\* C8: the interceptor calls its delegate once, with the arguments it
\* got, and the caller sees what the delegate gave: the same value or
\* generator, the same exception, or an awaitable with the same result.
C8_CallingConvention ==
  \A c \in Intercepted :
    /\ (calls[c].dret.k # "none" =>
          calls[c].delegated = << [args |-> calls[c].args, kwargs |-> calls[c].kwargs] >>)
    /\ (~calls[c].coro => calls[c].ret = calls[c].dret)
    /\ (calls[c].dres.k # "none" => calls[c].res = calls[c].dres)

\* C9: when a call comes back to its caller the sends of its spans are
\* scheduled and none has started; what the caller got from a call never
\* changes afterwards, and a step of a send task changes no call.
C9_FireAndForget ==
  [][ /\ \A c \in 1..Len(calls') :
           ((c > Len(calls) \/ calls[c].pc # "done") /\ calls'[c].pc = "done")
             => \A i \in 1..Len(spans') :
                  spans'[i].call = c => spans'[i].task = "scheduled"
      /\ \A c \in 1..Len(calls) :
           /\ calls'[c].ret = calls[c].ret
           /\ (calls[c].res.k # "none" => calls'[c].res = calls[c].res)
      /\ (\E i \in 1..Len(spans) : spans'[i].task # spans[i].task) => calls' = calls
    ]_vars

\* a call returned its result to the caller and the send of its span failed later
C9_Witness ==
  \E c \in Intercepted :
    /\ calls[c].pc = "done"
    /\ calls[c].ret = Return(FakeResponse)
    /\ \E i \in SpansOf(c) : spans[i].task = "failed"

\* C10: the parent of a span is the current step of the context when there
\* is a context with a current step, else the last of the recent steps
\* when there are any, else none; a missing context is no error.
C10_ParentResolution ==
  probe.pc = "recorded" =>
    /\ probe.out.exc # Exc("ChainlitContextException")
    /\ (probe.env.loop /\ probe.result # BrokenResponse => Len(probe.out.steps) = 1)
    /\ \A i \in 1..Len(probe.out.steps) :
         probe.out.steps[i].parent_id =
           IF probe.env.ctx = "present" /\ probe.env.current_step # 0
           THEN probe.env.current_step
           ELSE IF ~probe.env.stepsNone /\ probe.env.steps # <<>>
           THEN probe.env.steps[Len(probe.env.steps)]
           ELSE 0

\* no context, two recent steps: the span hangs under the last one
C10_Witness ==
  /\ probe.pc = "recorded"
  /\ probe.env.ctx = "absent"
  /\ probe.env.steps = <<8, 9>>
  /\ Len(probe.out.steps) = 1
  /\ probe.out.steps[1].parent_id = 9

\* no context and no recent step: the span has no parent
C10_WitnessRoot ==
  /\ probe.pc = "recorded"
  /\ probe.env.ctx = "absent"
  /\ probe.env.steps = <<>>
  /\ Len(probe.out.steps) = 1
  /\ probe.out.steps[1].parent_id = 0

\* google.genai imports and exposes a client class
ModernAvailable == sdk.genai /\ sdk.genaiClasses # {}

\* the legacy module as the import leaves it: no marker, no function replaced
LegacyUntouched ==
  /\ ~legacy.marked
  /\ DOMAIN legacy.fns = DOMAIN sdk.legacyModule
  /\ \A n \in DOMAIN legacy.fns : legacy.fns[n] = Fn(sdk.legacyModule[n])

\* C12: install() instruments the modern SDK when it is available (every
\* client class it exposes is patched) and then leaves the legacy module
\* alone: no function of it is replaced and no marker is set on it. The
\* legacy module is touched only when the modern SDK is not available.
C12_ModernPreferred ==
  /\ ModernAvailable => LegacyUntouched
  /\ ModernAvailable /\ installs # <<>> =>
        \A c \in sdk.genaiClasses : classes[c].marked /\ classes[c].init = 1
  /\ ~LegacyUntouched => ~ModernAvailable /\ sdk.generativeai /\ installs # <<>>

\* install() has run with both SDKs importable
C12_Witness ==
  /\ ModernAvailable /\ sdk.generativeai
  /\ DOMAIN legacy.fns # {}
  /\ Len(installs) = 2
  /\ \A c \in sdk.genaiClasses : classes[c].marked

\* install() has patched the legacy module because the modern SDK is missing
C12_WitnessLegacy ==
  ~ModernAvailable /\ legacy.marked /\ \E n \in DOMAIN legacy.fns : legacy.fns[n].layers # <<>>

\* the clients constructed through a patched constructor
Instrumented == {i \in 1..Len(clients) : clients[i].inits >= 1}

\* the rows of the table that reach method m of component c of a client
Rows(obj, c, m) ==
  {k \in 1..Len(Targets) : obj.surf[Targets[k][1]] = c /\ Targets[k][2] = m}

\* the original constructor ran to completion with the arguments the caller
\* gave and what it built is still there: same surfaces, same components,
\* same method names
BuiltAsOriginal(i) ==
  LET obj == clients[i].obj IN
    /\ obj.received = clients[i].given
    /\ \E shape \in BuildShapes :
         /\ obj.surf = shape.surf
         /\ obj.falsy = shape.falsy
         /\ DOMAIN obj.comps = DOMAIN shape.comps
         /\ \A c \in DOMAIN obj.comps :
              /\ DOMAIN obj.comps[c] = shape.comps[c]
              /\ \A m \in DOMAIN obj.comps[c] :
                   obj.comps[c][m].coro = (obj.cls = "AsyncClient")

\* method m of component c is as the SDK made it
SdkMethod(obj, c, m) == obj.comps[c][m] = Fn(obj.cls = "AsyncClient")

\* method m of surface s is one interceptor tagged with s and m
TaggedInterceptor(obj, s, m) ==
  /\ obj.comps[obj.surf[s]][m].layers = <<Tag(s, m)>>
  /\ obj.comps[obj.surf[s]][m].marked

\* C13 as stated: on a client constructed after install() the original
\* constructor has run with the caller's arguments, every listed method
\* present on a surface of the table that the instance has is an
\* interceptor tagged with that surface and that method name, and the
\* methods the table does not list are unchanged.
C13_TaggedWithOwnSurface ==
  \A i \in Instrumented :
    LET obj == clients[i].obj IN
      /\ BuiltAsOriginal(i)
      /\ \A k \in 1..Len(Targets) :
           (/\ obj.surf[Targets[k][1]] # 0
            /\ Targets[k][2] \in DOMAIN obj.comps[obj.surf[Targets[k][1]]])
             => TaggedInterceptor(obj, Targets[k][1], Targets[k][2])
      /\ \A c \in DOMAIN obj.comps : \A m \in DOMAIN obj.comps[c] :
           Rows(obj, c, m) = {} => SdkMethod(obj, c, m)

\* C13 amended: on a client constructed after install() the original
\* constructor has run with the caller's arguments; every listed method
\* present on a surface of the table whose attribute the instance has with
\* a true truth value is one interceptor tagged with that surface and that
\* method name; every other method is unchanged: those the table does not
\* list for their surface and those of a surface whose attribute holds
\* None or another object whose truth value is False.
C13_ConstructorPatching ==
  \A i \in Instrumented :
    LET obj == clients[i].obj IN
      /\ BuiltAsOriginal(i)
      /\ \A k \in 1..Len(Targets) :
           (/\ obj.surf[Targets[k][1]] # 0
            /\ obj.surf[Targets[k][1]] \notin obj.falsy
            /\ Targets[k][2] \in DOMAIN obj.comps[obj.surf[Targets[k][1]]])
             => TaggedInterceptor(obj, Targets[k][1], Targets[k][2])
      /\ \A c \in DOMAIN obj.comps : \A m \in DOMAIN obj.comps[c] :
           (Rows(obj, c, m) = {} \/ c \in obj.falsy) => SdkMethod(obj, c, m)

\* both client classes have been constructed after install(): one with
\* arguments, a surface that is empty and has a listed method, and a
\* surface that is None; one with several surfaces of the table and
\* methods outside it
C13_Witness ==
  /\ \E i \in Instrumented :
       /\ clients[i].obj.cls = "AsyncClient"
       /\ clients[i].given.args # <<>> /\ clients[i].given.kwargs # <<>>
       /\ clients[i].obj.surf["responses"] # 0
       /\ clients[i].obj.surf["agents"] \in clients[i].obj.falsy
       /\ "create" \in DOMAIN clients[i].obj.comps[clients[i].obj.surf["agents"]]
       /\ clients[i].obj.surf["tools"] \in clients[i].obj.falsy
       /\ clients[i].obj.surf["models"] = 0
  /\ \E i \in Instrumented :
       /\ clients[i].obj.cls = "Client"
       /\ clients[i].obj.surf["models"] # 0
       /\ clients[i].obj.surf["sessions"] # 0
       /\ clients[i].obj.surf["files"] # 0
       /\ clients[i].obj.surf["agents"] = 0

\* C14: when install() falls back to the legacy SDK, each of generate_text,
\* generate_content and generate_message that the module has is one
\* interceptor with interface "legacy" and the function's name as method,
\* whatever the number of install() calls; the module gets no function it
\* did not have, and its other functions are unchanged.
C14_LegacyPatching ==
  /\ ~ModernAvailable /\ sdk.generativeai /\ installs # <<>> => legacy.marked
  /\ legacy.marked =>
       /\ DOMAIN legacy.fns = DOMAIN sdk.legacyModule
       /\ \A n \in DOMAIN legacy.fns :
            IF InSeq(n, LegacyCandidates)
            THEN /\ legacy.fns[n].layers = <<Tag("legacy", n)>>
                 /\ legacy.fns[n].coro = sdk.legacyModule[n]
                 /\ legacy.fns[n].marked
            ELSE legacy.fns[n] = Fn(sdk.legacyModule[n])

\* install() has run twice on a legacy module that has generate_content and
\* count_tokens but neither generate_text nor generate_message
C14_Witness ==
  /\ Len(installs) = 2
  /\ legacy.marked
  /\ DOMAIN legacy.fns = {"generate_content", "count_tokens"}
  /\ legacy.fns["generate_content"].layers # <<>>

\* _record_generation has been applied and has created a step
Recorded == probe.pc = "recorded" /\ probe.out.exc = NoneV

\* positional arguments that are text beginning with "models/" or a mapping
\* with a "model" key
PosModelStated(args) ==
  {i \in 1..Len(args) :
     \/ args[i].t = "str" /\ args[i].s # <<>> /\ args[i].s[1] = "models/"
     \/ args[i].t = "dict" /\ HasKey(args[i].items, Str(<<"model">>))}

\* the same, the mapping's "model" entry being text
PosModelText(args) ==
  {i \in PosModelStated(args) :
     args[i].t = "dict" => Lookup(args[i].items, Str(<<"model">>)).t = "str"}

\* the result attributes among model, model_name, model_version that are text
ResultModelText(result) ==
  {i \in 1..Len(ModelAttrs) : GetAttr(result, ModelAttrs[i]).t = "str"}

\* the span name by the three rules, pos being the positional arguments
\* that match rule (2); an identifier that is empty or not text gives the
\* default name
NameByRules(pos, p) ==
  LET id == IF HasKey(p.kwargs, "model") /\ Lookup(p.kwargs, "model").t = "str"
            THEN Lookup(p.kwargs, "model")
            ELSE IF pos # {}
            THEN IF p.args[Min(pos)].t = "str" THEN p.args[Min(pos)]
                 ELSE Lookup(p.args[Min(pos)].items, Str(<<"model">>))
            ELSE IF ResultModelText(p.result) # {}
            THEN GetAttr(p.result, ModelAttrs[Min(ResultModelText(p.result))])
            ELSE NoneV
  IN IF id.t # "str" \/ id = Str(<<>>)
     THEN Str(<<"google::", p.tag.interface, ".", p.tag.method>>)
     ELSE id

\* C17 as stated: the span name is given by the first matching rule among
\* (1) keyword "model" that is text, (2) a positional argument that is text
\* beginning with "models/" or a mapping containing a "model" key, (3) the
\* first text attribute among model, model_name, model_version of the
\* result; the default name when none matches or the identifier is empty.
C17_NameStated ==
  Recorded => probe.out.steps[1].name = NameByRules(PosModelStated(probe.args), probe)

\* C17 amended: the same with rule (2) matching a mapping only when its
\* "model" entry is text.
C17_NameResolution ==
  Recorded => probe.out.steps[1].name = NameByRules(PosModelText(probe.args), probe)

\* rule (2) has named a step after the "model" entry of a mapping passed
\* second, although the result has a model attribute
C17_Witness ==
  /\ Recorded
  /\ probe.kwargs = <<>>
  /\ Len(probe.args) = 2 /\ probe.args[2].t = "dict"
  /\ probe.result = FakeResponse
  /\ probe.out.steps[1].name = Str(<<"in-dict">>)

\* no rule matched, or the keyword gave an empty identifier: default name
C17_WitnessDefault ==
  /\ Recorded
  /\ HasKey(probe.kwargs, "model") /\ Lookup(probe.kwargs, "model") = Str(<<>>)
  /\ probe.out.steps[1].name = Str(<<"google::", "models", ".", "generate_content">>)

\* the keyword arguments among contents, messages, prompt, input, text that
\* are present, by their place in the preference order
KwPresent(kwargs) == {i \in 1..Len(PromptKeys) : HasKey(kwargs, PromptKeys[i])}

\* those of them that carry a value
KwPayload(kwargs) == {i \in KwPresent(kwargs) : Lookup(kwargs, PromptKeys[i]) # NoneV}

\* the positional arguments of the given kinds
PosPayload(args, kinds) == {i \in 1..Len(args) : args[i].t \in kinds}

\* the span input by the three rules, kw and pos being the keyword and
\* positional arguments that match rules (1) and (2)
InputByRules(kw, pos, p) ==
  IF kw # {} THEN _simplify(Lookup(p.kwargs, PromptKeys[Min(kw)]))
  ELSE IF pos # {} THEN _simplify(p.args[Min(pos)])
  ELSE Dict(<< <<Str(<<"args">>), _simplify(Tuple(p.args))>>,
               <<Str(<<"kwargs">>), _simplify(KwDict(p.kwargs))>> >>)

\* C18: the span input is the simplified value of the first keyword argument
\* present among contents, messages, prompt, input, text, else the
\* simplified first positional argument that is text, a mapping or a
\* sequence, else the simplification of all arguments. Stated for every
\* reading of its words: a keyword passed as None counts as present or as
\* carrying no payload, a sequence is a list or also a tuple.
C18_InputResolution ==
  Recorded =>
    probe.out.steps[1].input \in
      { InputByRules(kw, pos, probe) :
          kw \in {KwPresent(probe.kwargs), KwPayload(probe.kwargs)},
          pos \in {PosPayload(probe.args, {"str", "dict", "list"}),
                   PosPayload(probe.args, {"str", "dict", "list", "tuple"})} }

\* the result is an object none of whose output_text, text, response_text
\* is a non-empty text
NoTextAttr(result) ==
  /\ result.t = "obj"
  /\ \A i \in 1..Len(OutputAttrs) :
       LET v == GetAttr(result, OutputAttrs[i])
       IN ~IsExc(v) /\ ~(v.t = "str" /\ v.s # <<>>)

\* the non-empty text fragments of one candidate, in the order of its parts
CandidateTexts(candidate) ==
  LET content == GetAttr(candidate, "content")
      parts == GetAttr(content, "parts")
  IN IF content = NoneV \/ parts = NoneV THEN <<>>
     ELSE SelectSeq([j \in 1..Len(parts.items) |-> GetAttr(parts.items[j], "text")],
                    LAMBDA text : text.t = "str" /\ text.s # <<>>)

\* the kinds of value whose iteration gives their elements in order
Sequential == {"list", "tuple", "set", "generator"}

\* the result exposes candidates[].content.parts[].text: a sequence of
\* candidates whose content, where there is one, has a sequence of parts,
\* where there is one, whose text is text or missing
ExposesCandidates(result) ==
  /\ NoTextAttr(result)
  /\ GetAttr(result, "candidates").t \in Sequential
  /\ \A i \in 1..Len(GetAttr(result, "candidates").items) :
       LET content == GetAttr(GetAttr(result, "candidates").items[i], "content")
           parts == GetAttr(content, "parts")
       IN /\ ~IsExc(content)
          /\ content # NoneV =>
               /\ ~IsExc(parts)
               /\ parts # NoneV =>
                    /\ parts.t \in Sequential
                    /\ \A j \in 1..Len(parts.items) :
                         GetAttr(parts.items[j], "text").t \in {"str", "none"}

RECURSIVE Flatten(_)
Flatten(seqs) == IF seqs = <<>> THEN <<>> ELSE Head(seqs) \o Flatten(Tail(seqs))

\* all non-empty text fragments of the result, candidates in order
Fragments(result) ==
  Flatten([i \in 1..Len(GetAttr(result, "candidates").items) |->
             CandidateTexts(GetAttr(result, "candidates").items[i])])

\* the texts with a newline between each two
RECURSIVE NewlineJoined(_)
NewlineJoined(texts) ==
  IF texts = <<>> THEN Str(<<>>)
  ELSE IF Len(texts) = 1 THEN texts[1]
  ELSE Str(texts[1].s \o <<"\n">> \o NewlineJoined(Tail(texts)).s)

\* what the rules after the candidates rule give for an object: the output
\* text of its nested response when that is text, else its simplification
LaterRules(result) ==
  IF /\ GetAttr(result, "response").t = "obj"
     /\ GetAttr(GetAttr(result, "response"), "output_text").t = "str"
  THEN GetAttr(GetAttr(result, "response"), "output_text")
  ELSE _simplify(result)

\* C19 as stated: for a result without a non-empty text attribute that
\* exposes candidates[].content.parts[].text, the span output is the
\* newline-joined non-empty text fragments in traversal order.
C19_OutputIsJoinedFragments ==
  Recorded /\ ExposesCandidates(probe.result) =>
    probe.out.steps[1].output = NewlineJoined(Fragments(probe.result))

\* C19 amended: the same when there is at least one non-empty fragment;
\* when there is none the candidates rule gives nothing and the output is
\* that of the later rules.
C19_CandidatesOutput ==
  Recorded /\ ExposesCandidates(probe.result) =>
    probe.out.steps[1].output =
      IF Fragments(probe.result) # <<>> THEN NewlineJoined(Fragments(probe.result))
      ELSE LaterRules(probe.result)

\* two candidates with three parts, one of them empty: "a\nb"
C19_Witness ==
  /\ Recorded
  /\ ExposesCandidates(probe.result)
  /\ Len(GetAttr(probe.result, "candidates").items) = 2
  /\ probe.out.steps[1].output = Str(<<"a", "\n", "b">>)

\* candidates without content and without parts before one with text "c"
C19_WitnessSkipped ==
  /\ Recorded
  /\ ExposesCandidates(probe.result)
  /\ Len(GetAttr(probe.result, "candidates").items) = 3
  /\ probe.out.steps[1].output = Str(<<"c">>)

\* an exception was raised while the candidates/content/parts chain of the
\* result was walked
WalkRaised(result) ==
  LET it == Iterate(GetAttr(result, "candidates"))
  IN ~it.ok \/ WalkCandidates(it.items, 1, <<>>).raised

\* C20: when an exception is raised while the candidates chain is walked,
\* also after some fragments have been collected, the candidates rule is no
\* match: the output is that of the later rules (nested response output
\* text, else the simplified result) and no exception leaves the recorder.
C20_ExtractionFailureFallsThrough ==
  /\ probe.pc = "recorded"
  /\ NoTextAttr(probe.result)
  /\ HasKey(probe.result.attrs, "candidates")
  /\ WalkRaised(probe.result)
  => /\ probe.out.exc = NoneV
     /\ probe.out.steps[1].output = LaterRules(probe.result)

\* C16: a call cancelled while its wrapper (_async_wrapper or
\* _await_and_record) is suspended awaiting the delegate has no span, in
\* the step of the cancellation and in every later state, and the caller
\* gets the cancellation.
C16_CancelledNeverRecorded ==
  \A c \in 1..Len(calls) :
    calls[c].pc = "cancelled" =>
      /\ SpansOf(c) = {}
      /\ calls[c].res = Raise(Exc("CancelledError"))

\* an intercepted call of a function that is not a coroutine function has
\* returned an awaitable and was cancelled in _await_and_record
C16_Witness ==
  \E c \in 1..Len(calls) :
    /\ calls[c].pc = "cancelled"
    /\ calls[c].layers # <<>>
    /\ ~calls[c].coro

\* an intercepted coroutine function was cancelled in _async_wrapper
C16_WitnessAsync ==
  \E c \in 1..Len(calls) :
    /\ calls[c].pc = "cancelled"
    /\ calls[c].layers # <<>>
    /\ calls[c].coro

\* call c is the call of the reference test: client.responses.generate of an
\* instrumented client, with keyword arguments model and contents, has come
\* back with a result that exposes its output text
TestCall(c) ==
  /\ calls[c].client >= 1
  /\ calls[c].layers = <<Tag("responses", "generate")>>
  /\ calls[c].pc = "done"
  /\ calls[c].args = <<>>
  /\ calls[c].kwargs[1][1] = "model" /\ calls[c].kwargs[2][1] = "contents"
  /\ LET d == IF calls[c].dres = NoOutcome THEN calls[c].dret ELSE calls[c].dres
     IN d.k = "return" /\ GetAttr(d.v, "output_text").t = "str"

\* the result the delegate of call c gave: what it returned or, when that
\* was an awaitable, what the awaitable resolved to
DelegateResult(c) ==
  (IF calls[c].dres = NoOutcome THEN calls[c].dret ELSE calls[c].dres).v

\* call c gave its caller what its delegate gave, has exactly one span,
\* its send scheduled on the loop, running or done, and the span has the
\* input C and the metadata of client.responses.generate
TestSpan(c) ==
  /\ IF calls[c].dres = NoOutcome THEN calls[c].ret = calls[c].dret
     ELSE calls[c].res = calls[c].dres
  /\ Cardinality(SpansOf(c)) = 1
  /\ \A i \in SpansOf(c) :
       /\ spans[i].step.input = calls[c].kwargs[2][2]
       /\ spans[i].step.metadata =
            [provider |-> "google", interface |-> "responses", method |-> "generate"]
       /\ spans[i].task \in {"scheduled", "running", "sent"}

\* C11 as stated: a call client.responses.generate(model=M, contents=C)
\* made in an active execution context on an instrumented client, whose
\* result exposes output text T, gives the caller the delegate's result and
\* has exactly one span, with name M, input C, output T and metadata
\* provider "google", interface "responses", method "generate", whose send
\* is scheduled on the loop and, once run, has sent it.
C11_EndToEnd ==
  \A c \in 1..Len(calls) :
    TestCall(c) =>
      /\ TestSpan(c)
      /\ \A i \in SpansOf(c) :
           /\ spans[i].step.name = calls[c].kwargs[1][2]
           /\ spans[i].step.output = GetAttr(DelegateResult(c), "output_text")

\* the output of a result whose output_text is the empty text: the first
\* non-empty text among its text and response_text, else the joined
\* fragments of its candidates, else what the later rules give
PastOutputText(result) ==
  LET texts == SelectSeq(<<GetAttr(result, "text"), GetAttr(result, "response_text")>>,
                         LAMBDA v : v.t = "str" /\ v.s # <<>>)
  IN IF texts # <<>> THEN texts[1]
     ELSE IF ExposesCandidates(result) /\ Fragments(result) # <<>>
     THEN NewlineJoined(Fragments(result))
     ELSE LaterRules(result)

\* C11 amended: the same with name M when M is not empty and the name
\* "google::responses.generate" when M is the empty text, and with output T
\* when T is not empty; an empty T is passed over: the output is then the
\* first non-empty text among the result's text and response_text, else
\* what the rules after the text attributes give.
C11_EndToEndNonEmpty ==
  \A c \in 1..Len(calls) :
    TestCall(c) =>
      /\ TestSpan(c)
      /\ \A i \in SpansOf(c) :
           /\ spans[i].step.name =
                IF calls[c].kwargs[1][2].s # <<>> THEN calls[c].kwargs[1][2]
                ELSE Str(<<"google::", "responses", ".", "generate">>)
           /\ spans[i].step.output =
                IF GetAttr(DelegateResult(c), "output_text").s # <<>>
                THEN GetAttr(DelegateResult(c), "output_text")
                ELSE PastOutputText(DelegateResult(c))

\* the call of the reference test was made, its model not being the one the
\* result names, and the loop has run the send of its span
C11_Witness ==
  \E c \in 1..Len(calls) :
    /\ TestCall(c)
    /\ calls[c].ret = Return(FakeResponse)
    /\ calls[c].kwargs[1][2] = Str(<<"gemini-pro">>)
    /\ \E i \in SpansOf(c) : spans[i].task = "sent"

\* a call with the empty text as model, whose result has an empty output
\* text, has sent a span named "google::responses.generate" whose output is
\* the result's `text`
C11_WitnessEmpty ==
  \E c \in 1..Len(calls) :
    /\ TestCall(c)
    /\ calls[c].kwargs[1][2] = Str(<<>>)
    /\ DelegateResult(c) = EmptyOutputResponse
    /\ \E i \in SpansOf(c) :
         /\ spans[i].task = "sent"
         /\ spans[i].step.name = Str(<<"google::", "responses", ".", "generate">>)
         /\ spans[i].step.output = Str(<<"alt">>)

\* a call whose result exposes an empty output text and nothing else has a
\* span whose output is the simplified result
C11_WitnessSimplified ==
  \E c \in 1..Len(calls) :
    /\ TestCall(c)
    /\ DelegateResult(c) = EmptyTextResponse
    /\ \E i \in SpansOf(c) :
         spans[i].step.output =
           Dict(<< <<Str(<<"output_text">>), Str(<<>>)>> >>)

\* C15: the start of every span is a clock reading taken not later than
\* the invocation of the delegate, its end a reading taken not earlier than
\* the moment the result (the resolved value, for an awaitable) was
\* available, and start <= end.
C15_Timing ==
  \A i \in 1..Len(spans) :
    LET call == calls[spans[i].call]
        step == spans[i].step
    IN /\ step.start.at # NoTime /\ call.invoked # NoTime /\ call.available # NoTime
       /\ step.start.at <= call.invoked
       /\ call.available <= step.end.at
       /\ step.start.at <= step.end.at

\* a span of a call whose delegate took time to return its plain result
C15_Witness ==
  \E i \in 1..Len(spans) :
    /\ calls[spans[i].call].dres = NoOutcome
    /\ spans[i].step.start.at < spans[i].step.end.at

\* a span of a call of a function that is not a coroutine function, whose
\* awaitable result resolved after time had passed
C15_WitnessAwaited ==
  \E i \in 1..Len(spans) :
    /\ ~calls[spans[i].call].coro
    /\ calls[spans[i].call].dres.k = "return"
    /\ calls[spans[i].call].invoked < calls[spans[i].call].available
    /\ spans[i].step.end.at = calls[spans[i].call].available

\* a span of a coroutine function whose awaitable resolved after time had passed
C15_WitnessAsync ==
  \E i \in 1..Len(spans) :
    /\ calls[spans[i].call].coro
    /\ 0 < spans[i].step.start.at
    /\ spans[i].step.start.at < spans[i].step.end.at

\* a JSON-safe value: a primitive, null, a sequence of JSON-safe values or a
\* mapping from text to JSON-safe values
RECURSIVE JsonSafe(_)
JsonSafe(o) ==
  CASE o.t \in {"str", "int", "bool", "none"} -> TRUE
    [] o.t = "list" -> \A i \in 1..Len(o.items) : JsonSafe(o.items[i])
    [] o.t = "dict" -> \A i \in 1..Len(o.items) :
                         o.items[i][1].t = "str" /\ JsonSafe(o.items[i][2])
    [] OTHER -> FALSE

\* the keys of entries i and j of a mapping convert to the same text: the
\* text of an object holds its address and is that of no other key
SameKeyText(items, i, j) ==
  \/ i = j
  \/ /\ ~HasAddress(items[i][1]) /\ ~HasAddress(items[j][1])
     /\ PyStr(items[i][1]) = PyStr(items[j][1])

\* the entries of a mapping whose key, as text, no earlier entry has
FirstOfKey(items) ==
  {i \in 1..Len(items) : \A j \in 1..(i - 1) : ~SameKeyText(items, j, i)}

\* the n-th of them
NthFirst(items, n) ==
  CHOOSE i \in FirstOfKey(items) : Cardinality({j \in FirstOfKey(items) : j <= i}) = n

\* the last entry whose key, as text, is that of entry i
LastOfKey(items, i) ==
  CHOOSE j \in 1..Len(items) :
    /\ SameKeyText(items, j, i)
    /\ \A k \in (j + 1)..Len(items) : ~SameKeyText(items, k, i)

\* o is what the rules of simplification give for v. entryWise: every entry
\* of a mapping gives an entry of the result; otherwise entries whose keys
\* are the same text give one entry, at the place of the first and with the
\* value of the last
RECURSIVE SimplifiedAs(_, _, _)
SimplifiedAs(v, o, entryWise) ==
  CASE v.t \in {"str", "int", "bool", "none"} -> o = v
    [] v.t = "dict" ->
         /\ o.t = "dict"
         /\ IF entryWise
            THEN /\ Len(o.items) = Len(v.items)
                 /\ \A i \in 1..Len(v.items) :
                      /\ o.items[i][1] = PyStr(v.items[i][1])
                      /\ SimplifiedAs(v.items[i][2], o.items[i][2], entryWise)
            ELSE /\ Len(o.items) = Cardinality(FirstOfKey(v.items))
                 /\ \A n \in 1..Len(o.items) :
                      /\ o.items[n][1] = PyStr(v.items[NthFirst(v.items, n)][1])
                      /\ SimplifiedAs(
                           v.items[LastOfKey(v.items, NthFirst(v.items, n))][2],
                           o.items[n][2], entryWise)
    [] v.t \in {"list", "tuple", "set"} ->
         /\ o.t = "list"
         /\ Len(o.items) = Len(v.items)
         /\ \A i \in 1..Len(v.items) : SimplifiedAs(v.items[i], o.items[i], entryWise)
    [] v.t = "obj" ->
         LET pub == SelectSeq(v.attrs, LAMBDA it : ~StartsWithUnderscore(it[1]))
         IN /\ o.t = "dict"
            /\ Len(o.items) = Len(pub)
            /\ \A i \in 1..Len(pub) :
                 /\ o.items[i][1] = Str(<<pub[i][1]>>)
                 /\ SimplifiedAs(pub[i][2], o.items[i][2], entryWise)
    [] v.t = "dumpable" ->
         IF IsExc(v.dump) THEN o = Repr(v) ELSE SimplifiedAs(v.dump, o, entryWise)
    [] OTHER -> o.t = "str"

\* C21 as stated: _simplify gives a JSON-safe value: primitives and null
\* unchanged, every entry of a mapping an entry with its key as text and its
\* value simplified, in insertion order, lists, tuples and sets sequences of
\* simplified elements, an object with __dict__ the mapping of its
\* attributes without a leading underscore, an object whose model_dump
\* raises its debug string.
C21_SimplifyEntryWise ==
  probe.pc = "simplified" =>
    JsonSafe(probe.out) /\ SimplifiedAs(probe.value, probe.out, TRUE)

\* C21 amended: the same, entries of a mapping whose keys convert to the
\* same text giving one entry, at the place of the first and with the
\* simplified value of the last.
C21_Simplification ==
  probe.pc = "simplified" =>
    JsonSafe(probe.out) /\ SimplifiedAs(probe.value, probe.out, FALSE)

\* a mapping with the keys 1 and "1", one of its values an object that is
\* not JSON-safe, has been simplified
C21_Witness ==
  /\ probe.pc = "simplified"
  /\ probe.value.t = "dict"
  /\ Len(probe.value.items) = 2
  /\ Cardinality(FirstOfKey(probe.value.items)) = 1
  /\ \E i \in 1..2 : probe.value.items[i][2].t \in {"obj", "dumpable", "opaque"}

\* an object with private attributes and one whose model_dump raises has
\* been simplified
C21_WitnessObject ==
  /\ probe.pc = "simplified"
  /\ probe.value.t = "obj"
  /\ \E i \in 1..Len(probe.value.attrs) :
       /\ ~StartsWithUnderscore(probe.value.attrs[i][1])
       /\ probe.value.attrs[i][2] = Dumpable(Exc("DumpError"))
  /\ \E i \in 1..Len(probe.out.items) : probe.out.items[i][2] = Repr(Dumpable(NoneV))

\* the recorder holds a span whose constructor has returned
Constructed == probe.pc = "running" /\ probe.step # NoneV

\* C22 as stated: once the constructor of a span has returned the recorder
\* writes no field of it, neither before nor after scheduling its send.
C22_NeverWritten ==
  [][Constructed => probe'.step = probe.step]_vars

\* C22 amended: after the constructor of a span has returned the recorder
\* writes its input, output, start and end and no other field, all before
\* it schedules the send; once the send is scheduled no field of the span
\* changes.
C22_HandOff ==
  [][ /\ \A i \in 1..Len(spans) : spans'[i].step = spans[i].step
      /\ (Constructed /\ spans # <<>>) => probe'.step = probe.step
      /\ Constructed =>
           \A f \in {"name", "type", "parent_id", "metadata"} :
             probe'.step[f] = probe.step[f]
    ]_vars

\* the recorder has returned and the send of its span, whose four fields it
\* wrote after construction, has run
C22_Witness ==
  /\ probe.pc = "returned"
  /\ spans # <<>>
  /\ spans[1].task = "sent"
  /\ spans[1].step = probe.step
  /\ \A f \in StepFields : probe.step[f] # Unset

\* C23: a call of install() that raises the configuration error leaves
\* every SDK object as it was: no constructor and no function of the legacy
\* module replaced, no marker set on a class, the module or a function.
C23_FailedInstallNoEffect ==
  [][ (Len(installs') = Len(installs) + 1 /\ installs'[Len(installs')] = "ValueError")
        => classes' = classes /\ legacy' = legacy ]_vars

\* every method of the client object is the SDK's own
OriginalMethods(obj) ==
  \A c \in DOMAIN obj.comps : \A m \in DOMAIN obj.comps[c] :
    obj.comps[c][m] = Fn(obj.cls = "AsyncClient")

\* every target method the client object has is intercepted
TargetsIntercepted(obj) ==
  \A tm \in TargetMethods(obj) : obj.comps[tm[1]][tm[2]].layers # <<>>

\* the instances constructed before the first install(): their class was
\* not patched when their constructor ran
BeforeInstall == {i \in 1..Len(clients) : clients[i].inits = 0}

C24_WitnessBoth ==
  /\ Len(clients) = 2 /\ installs # <<>>
  /\ clients[1].obj.cls = clients[2].obj.cls
  /\ 1 \in BeforeInstall
  /\ OriginalMethods(clients[1].obj)
  /\ TargetMethods(clients[2].obj) # {}
  /\ TargetsIntercepted(clients[2].obj)

====
